---- MODULE Spec2Model ----
(***************************************************************************)
(* Model of sw/device/lib/crypto/drivers/entropy.c: the driver of the      *)
(* entropy complex (entropy_src, csrng, edn0, edn1).                       *)
(*                                                                         *)
(* The driver is sequential code whose only effects are memory-mapped      *)
(* register reads and writes.  The model executes it one register access   *)
(* per step, records every access in `log`, and lets the hardware answer   *)
(* the reads (ready / done / status / valid bits) nondeterministically.    *)
(*                                                                         *)
(* A 32-bit word is the set of the positions of its set bits, a subset of  *)
(* 0..31, so that no value exceeds what the model checker's integers hold  *)
(* and bitwise operations are set operations.                              *)
(***************************************************************************)
EXTENDS Integers, Sequences, FiniteSets, TLC

VARIABLES
  pc,       \* position of the driver: "idle", "done" (the call has returned to its
            \* caller) or a label of the function being executed
  stack,    \* return labels of the active callers, innermost first
  api,      \* the driver call in progress (or the last one): [fn, disable_trng_input, seed_material, len]
  config,   \* the selected entry of kEntropyComplexConfigs
  sendargs, \* arguments of the active csrng_send_app_cmd: [reg_address, cmd]
  edn,      \* argument of the active edn_stop / edn_configure / edn_ready_block
  i,        \* loop index of csrng_send_app_cmd or entropy_csrng_generate_data_get
  buf,      \* output buffer of entropy_csrng_generate_data_get
  status,   \* status_t returned by the function that returned last
  hw,       \* contents of the configuration registers of the hardware
  log,      \* register accesses of the call in progress (or of the last one), in order
  stalls    \* number of polls of the call in progress that the hardware answered "not yet"

vars == <<pc, stack, api, config, sendargs, edn, i, buf, status, hw, log, stalls>>

(***************************************************************************)
(* Bounds of the model.                                                    *)
(***************************************************************************)
\* Not-ready answers the hardware gives to the polls of one call.
MaxStall == 1
\* Largest number of words drained by generate / generate_data_get.
MaxWords == 10

(***************************************************************************)
(* 32-bit words.                                                           *)
(***************************************************************************)
Bits32 == 0..31

\* 2^n for n in 0..30.
Pow2Table ==
  <<1, 2, 4, 8, 16, 32, 64, 128, 256, 512, 1024, 2048, 4096, 8192, 16384, 32768,
    65536, 131072, 262144, 524288, 1048576, 2097152, 4194304, 8388608, 16777216,
    33554432, 67108864, 134217728, 268435456, 536870912, 1073741824>>
Pow2(n) == Pow2Table[n + 1]

\* The word holding the natural number n < 2^31.
W(n) == {b \in 0..30 : (n \div Pow2(b)) % 2 = 1}

\* The value of the low 16 bits and of the high 16 bits of a word.
RECURSIVE BitSum(_)
BitSum(s) == IF s = {} THEN 0
             ELSE LET b == CHOOSE x \in s : TRUE IN Pow2(b) + BitSum(s \ {b})
Lo16(w) == BitSum({b \in w : b < 16})
Hi16(w) == BitSum({b - 16 : b \in {x \in w : x >= 16}})
\* The word with the given halves.
Halves(hi, lo) == W(lo) \cup {b + 16 : b \in W(hi)}
\* The value of a word below 2^31.
Nat32(w) == BitSum(w)

Shl(w, n) == {b + n : b \in w} \cap Bits32
Shr(w, n) == {b - n : b \in {x \in w : x >= n}}
Not32(w) == Bits32 \ w
\* uint32_t addition: the sum modulo 2^32.
Add32(a, b) ==
  LET lo == Lo16(a) + Lo16(b)
      hi == Hi16(a) + Hi16(b) + (lo \div 65536)
  IN Halves(hi % 65536, lo % 65536)

(***************************************************************************)
(* bitfield.h: fields and single bits of a word.                           *)
(***************************************************************************)
Field(m, idx) == [mask |-> W(m), index |-> idx]

bitfield_field32_write(bitfield, field, value) ==
  (bitfield \ Shl(field.mask, field.index)) \cup Shl(value \cap field.mask, field.index)

bitfield_field32_read(bitfield, field) ==
  Shr(bitfield, field.index) \cap field.mask

bitfield_bit32_read(bitfield, bit_index) == bit_index \in bitfield

bitfield_bit32_write(bitfield, bit_index, value) ==
  IF value THEN bitfield \cup {bit_index} ELSE bitfield \ {bit_index}

(***************************************************************************)
(* multibits.h, hardened.h: the encoded booleans.                          *)
(***************************************************************************)
kMultiBitBool4True == 6
kMultiBitBool4False == 9
kHardenedBoolTrue == 1849
kHardenedBoolFalse == 468

OK_STATUS == "OK"
INTERNAL == "INTERNAL"

(***************************************************************************)
(* Register map: an address is a block base and a register offset.         *)
(***************************************************************************)
kBaseCsrng == "kBaseCsrng"
kBaseEntropySrc == "kBaseEntropySrc"
kBaseEdn0 == "kBaseEdn0"
kBaseEdn1 == "kBaseEdn1"

Addr(base, offset) == <<base, offset>>

CSRNG_INTR_STATE_REG_OFFSET == "CSRNG_INTR_STATE"
CSRNG_CTRL_REG_OFFSET == "CSRNG_CTRL"
CSRNG_CMD_REQ_REG_OFFSET == "CSRNG_CMD_REQ"
CSRNG_SW_CMD_STS_REG_OFFSET == "CSRNG_SW_CMD_STS"
CSRNG_GENBITS_VLD_REG_OFFSET == "CSRNG_GENBITS_VLD"
CSRNG_GENBITS_REG_OFFSET == "CSRNG_GENBITS"
EDN_CTRL_REG_OFFSET == "EDN_CTRL"
EDN_SW_CMD_REQ_REG_OFFSET == "EDN_SW_CMD_REQ"
EDN_SW_CMD_STS_REG_OFFSET == "EDN_SW_CMD_STS"
EDN_RESEED_CMD_REG_OFFSET == "EDN_RESEED_CMD"
EDN_GENERATE_CMD_REG_OFFSET == "EDN_GENERATE_CMD"
EDN_MAX_NUM_REQS_BETWEEN_RESEEDS_REG_OFFSET == "EDN_MAX_NUM_REQS_BETWEEN_RESEEDS"
ENTROPY_SRC_MODULE_ENABLE_REG_OFFSET == "ENTROPY_SRC_MODULE_ENABLE"
ENTROPY_SRC_CONF_REG_OFFSET == "ENTROPY_SRC_CONF"
ENTROPY_SRC_ENTROPY_CONTROL_REG_OFFSET == "ENTROPY_SRC_ENTROPY_CONTROL"
ENTROPY_SRC_HEALTH_TEST_WINDOWS_REG_OFFSET == "ENTROPY_SRC_HEALTH_TEST_WINDOWS"
ENTROPY_SRC_ALERT_THRESHOLD_REG_OFFSET == "ENTROPY_SRC_ALERT_THRESHOLD"

\* Bits and fields of the registers (csrng_regs.h, edn_regs.h, entropy_src_regs.h).
CSRNG_INTR_STATE_CS_CMD_REQ_DONE_BIT == 0
CSRNG_SW_CMD_STS_CMD_RDY_BIT == 0
CSRNG_SW_CMD_STS_CMD_STS_BIT == 1
CSRNG_GENBITS_VLD_GENBITS_VLD_BIT == 0
EDN_SW_CMD_STS_CMD_RDY_BIT == 0
EDN_SW_CMD_STS_CMD_STS_BIT == 1

CSRNG_CTRL_ENABLE_FIELD == Field(15, 0)
CSRNG_CTRL_SW_APP_ENABLE_FIELD == Field(15, 4)
CSRNG_CTRL_READ_INT_STATE_FIELD == Field(15, 8)
EDN_CTRL_EDN_ENABLE_FIELD == Field(15, 0)
EDN_CTRL_BOOT_REQ_MODE_FIELD == Field(15, 4)
EDN_CTRL_AUTO_REQ_MODE_FIELD == Field(15, 8)
EDN_CTRL_CMD_FIFO_RST_FIELD == Field(15, 12)
ENTROPY_SRC_ENTROPY_CONTROL_ES_ROUTE_FIELD == Field(15, 0)
ENTROPY_SRC_ENTROPY_CONTROL_ES_TYPE_FIELD == Field(15, 4)
ENTROPY_SRC_CONF_FIPS_ENABLE_FIELD == Field(15, 0)
ENTROPY_SRC_CONF_ENTROPY_DATA_REG_ENABLE_FIELD == Field(15, 4)
ENTROPY_SRC_CONF_THRESHOLD_SCOPE_FIELD == Field(15, 12)
ENTROPY_SRC_CONF_RNG_BIT_ENABLE_FIELD == Field(15, 20)
ENTROPY_SRC_CONF_RNG_BIT_SEL_FIELD == Field(3, 24)
ENTROPY_SRC_HEALTH_TEST_WINDOWS_FIPS_WINDOW_FIELD == Field(65535, 0)
ENTROPY_SRC_HEALTH_TEST_WINDOWS_BYPASS_WINDOW_FIELD == Field(65535, 16)
ENTROPY_SRC_ALERT_THRESHOLD_ALERT_THRESHOLD_FIELD == Field(65535, 0)
ENTROPY_SRC_ALERT_THRESHOLD_ALERT_THRESHOLD_INV_FIELD == Field(65535, 16)

\* Power-on-reset values of the registers.
CSRNG_CTRL_REG_RESVAL == W(2457)                               \* 0x999
EDN_CTRL_REG_RESVAL == W(39321)                                \* 0x9999
ENTROPY_SRC_MODULE_ENABLE_REG_RESVAL == W(9)                   \* 0x9
ENTROPY_SRC_ENTROPY_CONTROL_REG_RESVAL == W(153)               \* 0x99
ENTROPY_SRC_CONF_REG_RESVAL == W(9474201)                      \* 0x909099
ENTROPY_SRC_HEALTH_TEST_WINDOWS_REG_RESVAL == W(6291968)       \* 0x600200
ENTROPY_SRC_ALERT_THRESHOLD_REG_RESVAL == Halves(65533, 2)     \* 0xfffd0002

(***************************************************************************)
(* Constants and types of entropy.c.                                       *)
(***************************************************************************)
kEntropyCsrngBitsBufferNumWords == 4

kEntropyDrbgOpInstantiate == 1
kEntropyDrbgOpReseed == 2
kEntropyDrbgOpGenerate == 3
kEntropyDrbgOpUpdate == 4
kEntropyDrbgOpUnisntantiate == 5

kEntropyComplexConfigIdContinuous == 0

NULL == [null |-> TRUE, len |-> 0, misalign |-> 0]

\* entropy_csrng_cmd_t; a member the initializer does not name is zero.
Cmd(id, disable_trng_input, seed_material, generate_len) ==
  [id |-> id, disable_trng_input |-> disable_trng_input,
   seed_material |-> seed_material, generate_len |-> generate_len]

\* The application command header fields of csrng_send_app_cmd.
kAppCmdFieldFlag0 == Field(15, 8)
kAppCmdFieldCmdId == Field(15, 0)
kAppCmdFieldCmdLen == Field(15, 4)
kAppCmdFieldGlen == Field(524287, 12)

kEntropyComplexConfigs ==
  [id |-> kEntropyComplexConfigIdContinuous,
   fips_enable |-> kMultiBitBool4True,
   route_to_firmware |-> kMultiBitBool4False,
   bypass_conditioner |-> kMultiBitBool4False,
   single_bit_mode |-> kMultiBitBool4False,
   fips_test_window_size |-> 512,
   alert_threshold |-> 2,
   edn0 |-> [base_address |-> kBaseEdn0,
             reseed_interval |-> 32,
             instantiate |-> Cmd(kEntropyDrbgOpInstantiate, kHardenedBoolFalse, NULL, 0),
             generate |-> Cmd(kEntropyDrbgOpGenerate, kHardenedBoolFalse, NULL, 8),
             reseed |-> Cmd(kEntropyDrbgOpReseed, kHardenedBoolFalse, NULL, 0)],
   edn1 |-> [base_address |-> kBaseEdn1,
             reseed_interval |-> 4,
             instantiate |-> Cmd(kEntropyDrbgOpInstantiate, kHardenedBoolFalse, NULL, 0),
             generate |-> Cmd(kEntropyDrbgOpGenerate, 0, NULL, 1),
             reseed |-> Cmd(kEntropyDrbgOpReseed, kHardenedBoolFalse, NULL, 0)]]

(***************************************************************************)
(* Inputs of the driver calls.                                             *)
(***************************************************************************)
\* const entropy_seed_material_t *: NULL, or a word count and a data pointer,
\* of which the model keeps the misalignment; word k of the data is SeedWord(k).
SeedMaterial(len, misalign) == [null |-> FALSE, len |-> len, misalign |-> misalign]
SeedWord(k) == W(10844416 + k)                                  \* 0xa57900 + k
SeedLens == {0, 1, 15, 16, 32}
SeedMaterials ==
  {NULL} \cup {SeedMaterial(n, 0) : n \in SeedLens}
         \cup {SeedMaterial(1, m) : m \in 1..3}
\* The seed materials the model passes to the generate calls.
GenerateSeedMaterials ==
  {NULL, SeedMaterial(15, 0), SeedMaterial(16, 0), SeedMaterial(1, 2)}

HardenedBools == {kHardenedBoolTrue, kHardenedBoolFalse}

\* Word counts: the small ones, which generate drains, and the ones at the
\* edges of the 19-bit generate-length field and of the 32-bit range.
SmallLens == {W(n) : n \in 0..MaxWords}
LargeLens == {W(2097148), W(2097149), W(2097152),               \* 2^21 - 4, 2^21 - 3, 2^21
              Halves(65535, 65532), Halves(65535, 65533), Halves(65535, 65535)}

\* A loop condition i <= len.
IndexBelow_Inclusive(k, len) == (\E b \in len : b >= 16) \/ k <= Nat32(len)

\* i < len, for an index the model reaches and a 32-bit len.
IndexBelow(k, len) == (\E b \in len : b >= 16) \/ k < Nat32(len)

(***************************************************************************)
(* abs_mmio.h: register accesses, recorded in the log.                     *)
(***************************************************************************)
ConfigRegisters ==
  {Addr(b, EDN_CTRL_REG_OFFSET) : b \in {kBaseEdn0, kBaseEdn1}}
  \cup {Addr(b, EDN_MAX_NUM_REQS_BETWEEN_RESEEDS_REG_OFFSET) : b \in {kBaseEdn0, kBaseEdn1}}
  \cup {Addr(kBaseCsrng, CSRNG_CTRL_REG_OFFSET)}
  \cup {Addr(kBaseEntropySrc, o) : o \in {ENTROPY_SRC_MODULE_ENABLE_REG_OFFSET,
                                          ENTROPY_SRC_CONF_REG_OFFSET,
                                          ENTROPY_SRC_ENTROPY_CONTROL_REG_OFFSET,
                                          ENTROPY_SRC_HEALTH_TEST_WINDOWS_REG_OFFSET,
                                          ENTROPY_SRC_ALERT_THRESHOLD_REG_OFFSET}}

\* The registers after power-on reset.
HwReset ==
  [a \in ConfigRegisters |->
     CASE a[2] = EDN_CTRL_REG_OFFSET -> EDN_CTRL_REG_RESVAL
       [] a[2] = EDN_MAX_NUM_REQS_BETWEEN_RESEEDS_REG_OFFSET -> W(0)
       [] a[2] = CSRNG_CTRL_REG_OFFSET -> CSRNG_CTRL_REG_RESVAL
       [] a[2] = ENTROPY_SRC_MODULE_ENABLE_REG_OFFSET -> ENTROPY_SRC_MODULE_ENABLE_REG_RESVAL
       [] a[2] = ENTROPY_SRC_CONF_REG_OFFSET -> ENTROPY_SRC_CONF_REG_RESVAL
       [] a[2] = ENTROPY_SRC_ENTROPY_CONTROL_REG_OFFSET -> ENTROPY_SRC_ENTROPY_CONTROL_REG_RESVAL
       [] a[2] = ENTROPY_SRC_HEALTH_TEST_WINDOWS_REG_OFFSET -> ENTROPY_SRC_HEALTH_TEST_WINDOWS_REG_RESVAL
       [] a[2] = ENTROPY_SRC_ALERT_THRESHOLD_REG_OFFSET -> ENTROPY_SRC_ALERT_THRESHOLD_REG_RESVAL]

Read(addr, val) == [op |-> "read", addr |-> addr, val |-> val]
Write(addr, val) == [op |-> "write", addr |-> addr, val |-> val]

abs_mmio_read32(addr, val) ==
  /\ log' = Append(log, Read(addr, val))
  /\ hw' = hw

abs_mmio_write32(addr, val) ==
  /\ log' = Append(log, Write(addr, val))
  /\ hw' = IF addr \in ConfigRegisters THEN [hw EXCEPT ![addr] = val] ELSE hw

\* The value of the register read last (the local variable `reg` after a read).
reg == log[Len(log)].val

\* The k-th word (from 0) that the csrng output register delivers.
GenbitsWord(k) == W(12648192 + k)                               \* 0xc0ff00 + k
GenbitsReads == Len(SelectSeq(log, LAMBDA e :
                  e.op = "read" /\ e.addr = Addr(kBaseCsrng, CSRNG_GENBITS_REG_OFFSET)))

\* The hardware answers a read of a status register with any of `answers`;
\* an answer outside `plain` (not ready yet, or a stray bit) is given at most
\* MaxStall times during one call.
HwAnswers(answers, plain) ==
  {v \in answers : v \in plain \/ stalls < MaxStall}
Stalled(val, plain) ==
  stalls' = IF val \in plain THEN stalls ELSE stalls + 1

StatusWords(rdy, sts) == {{}, {rdy}, {sts}, {rdy, sts}}

(***************************************************************************)
(* Calls and returns.                                                      *)
(***************************************************************************)
\* return st; from a function returning status_t
Return(st) ==
  /\ status' = st
  /\ IF stack = <<>>
       THEN pc' = "done" /\ stack' = stack
       ELSE pc' = Head(stack) /\ stack' = Tail(stack)

\* return from a void function
ReturnVoid ==
  /\ status' = status
  /\ IF stack = <<>>
       THEN pc' = "done" /\ stack' = stack
       ELSE pc' = Head(stack) /\ stack' = Tail(stack)

\* csrng_send_app_cmd(reg_address, cmd); `rets` is <<label>> when the caller
\* continues at that label, and <<>> when the caller returns the callee's result.
Call_send(reg_address, cmd, rets) ==
  /\ sendargs' = [reg_address |-> reg_address, cmd |-> cmd]
  /\ pc' = "send_226"
  /\ stack' = rets \o stack

NoEdn == "none"
NoArgs == [reg_address |-> Addr(NoEdn, NoEdn), cmd |-> Cmd(0, 0, NULL, 0)]

\* The caller enters a driver call.
Enter(call) ==
  /\ pc = "idle"
  /\ api' = call
  /\ UNCHANGED <<config, hw, log, stalls, buf, i, status>>

ApiCall(fn, disable_trng_input, seed_material, len) ==
  [fn |-> fn, disable_trng_input |-> disable_trng_input,
   seed_material |-> seed_material, len |-> len]

(***************************************************************************)
(* csrng_send_app_cmd                                                      *)
(***************************************************************************)
cmd_len(cmd) == IF cmd.seed_material = NULL THEN 0 ELSE cmd.seed_material.len

\* misalignment32_of((uintptr_t)cmd.seed_material->data)
misalignment32_of(seed_material) == seed_material.misalign

\* A length check against a 5-bit mask.
CmdLenOverflows_Wide(cmd) == (W(cmd_len(cmd)) \cap Not32(W(31))) # {}

\* if (cmd_len & ~kAppCmdFieldCmdLen.mask) return INTERNAL();
CmdLenOverflows(cmd) == (W(cmd_len(cmd)) \cap Not32(kAppCmdFieldCmdLen.mask)) # {}

\* if (cmd.seed_material != NULL && misalignment32_of(...) != 0) return INTERNAL();
SeedMisaligned(cmd) ==
  cmd.seed_material # NULL /\ misalignment32_of(cmd.seed_material) # 0

\* The application command header built for cmd.
AppCmdHeader(cmd) ==
  LET r1 == bitfield_field32_write(W(0), kAppCmdFieldCmdId, W(cmd.id))
      r2 == bitfield_field32_write(r1, kAppCmdFieldCmdLen, W(cmd_len(cmd)))
      r3 == bitfield_field32_write(r2, kAppCmdFieldGlen, W(cmd.generate_len))
  IN IF cmd.disable_trng_input = kHardenedBoolTrue
       THEN bitfield_field32_write(r3, kAppCmdFieldFlag0, W(kMultiBitBool4True))
       ELSE r3

\* A submit that checks the seed material before it waits for the ready bit.
send_poll_ready_ValidateFirst ==
  /\ pc = "send_226"
  /\ IF CmdLenOverflows(sendargs.cmd) \/ SeedMisaligned(sendargs.cmd)
       THEN Return(INTERNAL) /\ UNCHANGED <<hw, log, stalls>>
       ELSE /\ LET plain == {{CSRNG_SW_CMD_STS_CMD_RDY_BIT}} IN
               \E val \in HwAnswers(StatusWords(CSRNG_SW_CMD_STS_CMD_RDY_BIT,
                                                CSRNG_SW_CMD_STS_CMD_STS_BIT), plain) :
                 /\ abs_mmio_read32(Addr(kBaseCsrng, CSRNG_SW_CMD_STS_REG_OFFSET), val)
                 /\ Stalled(val, plain)
                 /\ pc' = IF bitfield_bit32_read(val, CSRNG_SW_CMD_STS_CMD_RDY_BIT)
                            THEN "send_240" ELSE "send_226"
            /\ UNCHANGED <<stack, status>>
  /\ UNCHANGED <<api, config, sendargs, edn, i, buf>>

\* do { reg = read(SW_CMD_STS); } while (!cmd_ready);
send_poll_ready ==
  /\ pc = "send_226"
  /\ LET plain == {{CSRNG_SW_CMD_STS_CMD_RDY_BIT}} IN
     \E val \in HwAnswers(StatusWords(CSRNG_SW_CMD_STS_CMD_RDY_BIT,
                                      CSRNG_SW_CMD_STS_CMD_STS_BIT), plain) :
       /\ abs_mmio_read32(Addr(kBaseCsrng, CSRNG_SW_CMD_STS_REG_OFFSET), val)
       /\ Stalled(val, plain)
       /\ pc' = IF bitfield_bit32_read(val, CSRNG_SW_CMD_STS_CMD_RDY_BIT)
                  THEN "send_240" ELSE "send_226"
  /\ UNCHANGED <<stack, api, config, sendargs, edn, i, buf, status>>

\* the checks of the seed material, before any write
send_validate ==
  /\ pc = "send_240"
  /\ IF CmdLenOverflows(sendargs.cmd) \/ SeedMisaligned(sendargs.cmd)
       THEN Return(INTERNAL)
       ELSE pc' = "send_258" /\ UNCHANGED <<stack, status>>
  /\ UNCHANGED <<api, config, sendargs, edn, i, buf, hw, log, stalls>>

\* A clear of the completion flag that is written to the csrng control register.
send_clear_done_ToControl ==
  /\ pc = "send_258"
  /\ abs_mmio_write32(Addr(kBaseCsrng, CSRNG_CTRL_REG_OFFSET),
                      bitfield_bit32_write(W(0), CSRNG_INTR_STATE_CS_CMD_REQ_DONE_BIT, TRUE))
  /\ pc' = "send_262"
  /\ UNCHANGED <<stack, api, config, sendargs, edn, i, buf, status, stalls>>

\* clear the cs_cmd_req_done bit
send_clear_done ==
  /\ pc = "send_258"
  /\ abs_mmio_write32(Addr(kBaseCsrng, CSRNG_INTR_STATE_REG_OFFSET),
                      bitfield_bit32_write(W(0), CSRNG_INTR_STATE_CS_CMD_REQ_DONE_BIT, TRUE))
  /\ pc' = "send_262"
  /\ UNCHANGED <<stack, api, config, sendargs, edn, i, buf, status, stalls>>

\* build and write the application command header
send_write_header ==
  /\ pc = "send_262"
  /\ abs_mmio_write32(sendargs.reg_address, AppCmdHeader(sendargs.cmd))
  /\ i' = 0
  /\ pc' = "send_272"
  /\ UNCHANGED <<stack, api, config, sendargs, edn, buf, status, stalls>>

\* A seed loop that writes the words last to first.
send_write_seed_Reversed ==
  /\ pc = "send_272"
  /\ IF i < cmd_len(sendargs.cmd)
       THEN /\ abs_mmio_write32(sendargs.reg_address, SeedWord(cmd_len(sendargs.cmd) - 1 - i))
            /\ i' = i + 1
            /\ pc' = "send_272"
       ELSE /\ pc' = "send_280"
            /\ UNCHANGED <<i, hw, log>>
  /\ UNCHANGED <<stack, api, config, sendargs, edn, buf, status, stalls>>

\* for (i = 0; i < cmd_len; ++i) write(reg_address, data[i]);
send_write_seed ==
  /\ pc = "send_272"
  /\ IF i < cmd_len(sendargs.cmd)
       THEN /\ abs_mmio_write32(sendargs.reg_address, SeedWord(i))
            /\ i' = i + 1
            /\ pc' = "send_272"
       ELSE /\ pc' = "send_280"
            /\ UNCHANGED <<i, hw, log>>
  /\ UNCHANGED <<stack, api, config, sendargs, edn, buf, status, stalls>>

\* A completion poll that gives up at the first read that finds the flag clear.
send_poll_done_GivesUp ==
  /\ pc = "send_280"
  /\ LET plain == {{CSRNG_INTR_STATE_CS_CMD_REQ_DONE_BIT}} IN
     \E val \in HwAnswers({{}, {CSRNG_INTR_STATE_CS_CMD_REQ_DONE_BIT}}, plain) :
       /\ abs_mmio_read32(Addr(kBaseCsrng, CSRNG_INTR_STATE_REG_OFFSET), val)
       /\ Stalled(val, plain)
       /\ IF bitfield_bit32_read(val, CSRNG_INTR_STATE_CS_CMD_REQ_DONE_BIT)
            THEN pc' = "send_284" /\ UNCHANGED <<stack, status>>
            ELSE Return(INTERNAL)
  /\ UNCHANGED <<api, config, sendargs, edn, i, buf>>

\* do { reg = read(INTR_STATE); } while (!done);
send_poll_done ==
  /\ pc = "send_280"
  /\ LET plain == {{CSRNG_INTR_STATE_CS_CMD_REQ_DONE_BIT}} IN
     \E val \in HwAnswers({{}, {CSRNG_INTR_STATE_CS_CMD_REQ_DONE_BIT}}, plain) :
       /\ abs_mmio_read32(Addr(kBaseCsrng, CSRNG_INTR_STATE_REG_OFFSET), val)
       /\ Stalled(val, plain)
       /\ pc' = IF bitfield_bit32_read(val, CSRNG_INTR_STATE_CS_CMD_REQ_DONE_BIT)
                  THEN "send_284" ELSE "send_280"
  /\ UNCHANGED <<stack, api, config, sendargs, edn, i, buf, status>>

\* check the status bit, which is 1 only if there was an error
send_read_status ==
  /\ pc = "send_284"
  /\ LET plain == {{CSRNG_SW_CMD_STS_CMD_RDY_BIT},
                   {CSRNG_SW_CMD_STS_CMD_RDY_BIT, CSRNG_SW_CMD_STS_CMD_STS_BIT}} IN
     \E val \in HwAnswers(StatusWords(CSRNG_SW_CMD_STS_CMD_RDY_BIT,
                                      CSRNG_SW_CMD_STS_CMD_STS_BIT), plain) :
       /\ abs_mmio_read32(Addr(kBaseCsrng, CSRNG_SW_CMD_STS_REG_OFFSET), val)
       /\ Stalled(val, plain)
       /\ Return(IF bitfield_bit32_read(val, CSRNG_SW_CMD_STS_CMD_STS_BIT)
                   THEN INTERNAL ELSE OK_STATUS)
  /\ UNCHANGED <<api, config, sendargs, edn, i, buf>>

csrng_send_app_cmd ==
  \/ send_poll_ready
  \/ send_validate
  \/ send_clear_done
  \/ send_write_header
  \/ send_write_seed
  \/ send_poll_done
  \/ send_read_status

(***************************************************************************)
(* edn_stop, edn_ready_block, edn_configure                                *)
(***************************************************************************)
\* A stop that requests the clear in the reset value, not in the value read.
edn_stop_ClearFromReset ==
  \/ /\ pc = "edn_stop_317"
     /\ abs_mmio_read32(Addr(edn, EDN_CTRL_REG_OFFSET), hw[Addr(edn, EDN_CTRL_REG_OFFSET)])
     /\ pc' = "edn_stop_318"
     /\ UNCHANGED <<stack, api, config, sendargs, edn, i, buf, status, stalls>>
  \/ /\ pc = "edn_stop_318"
     /\ abs_mmio_write32(Addr(edn, EDN_CTRL_REG_OFFSET),
                         bitfield_field32_write(EDN_CTRL_REG_RESVAL, EDN_CTRL_CMD_FIFO_RST_FIELD,
                                                W(kMultiBitBool4True)))
     /\ pc' = "edn_stop_324"
     /\ UNCHANGED <<stack, api, config, sendargs, edn, i, buf, status, stalls>>
  \/ /\ pc = "edn_stop_324"
     /\ abs_mmio_write32(Addr(edn, EDN_CTRL_REG_OFFSET), EDN_CTRL_REG_RESVAL)
     /\ ReturnVoid
     /\ UNCHANGED <<api, config, sendargs, edn, i, buf, stalls>>

edn_stop ==
  \/ /\ pc = "edn_stop_317"
     /\ abs_mmio_read32(Addr(edn, EDN_CTRL_REG_OFFSET), hw[Addr(edn, EDN_CTRL_REG_OFFSET)])
     /\ pc' = "edn_stop_318"
     /\ UNCHANGED <<stack, api, config, sendargs, edn, i, buf, status, stalls>>
  \/ /\ pc = "edn_stop_318"
     /\ abs_mmio_write32(Addr(edn, EDN_CTRL_REG_OFFSET),
                         bitfield_field32_write(reg, EDN_CTRL_CMD_FIFO_RST_FIELD,
                                                W(kMultiBitBool4True)))
     /\ pc' = "edn_stop_324"
     /\ UNCHANGED <<stack, api, config, sendargs, edn, i, buf, status, stalls>>
  \/ /\ pc = "edn_stop_324"
     /\ abs_mmio_write32(Addr(edn, EDN_CTRL_REG_OFFSET), EDN_CTRL_REG_RESVAL)
     /\ ReturnVoid
     /\ UNCHANGED <<api, config, sendargs, edn, i, buf, stalls>>

edn_ready_block ==
  /\ pc = "edn_ready_337"
  /\ LET plain == {{EDN_SW_CMD_STS_CMD_RDY_BIT},
                   {EDN_SW_CMD_STS_CMD_RDY_BIT, EDN_SW_CMD_STS_CMD_STS_BIT}} IN
     \E val \in HwAnswers(StatusWords(EDN_SW_CMD_STS_CMD_RDY_BIT,
                                      EDN_SW_CMD_STS_CMD_STS_BIT), plain) :
       /\ abs_mmio_read32(Addr(edn, EDN_SW_CMD_STS_REG_OFFSET), val)
       /\ Stalled(val, plain)
       /\ IF bitfield_bit32_read(val, EDN_SW_CMD_STS_CMD_RDY_BIT)
            THEN Return(IF bitfield_bit32_read(val, EDN_SW_CMD_STS_CMD_STS_BIT)
                          THEN INTERNAL ELSE OK_STATUS)
            ELSE pc' = "edn_ready_337" /\ UNCHANGED <<stack, status>>
  /\ UNCHANGED <<api, config, sendargs, edn, i, buf>>

\* The edn_config_t of the instance at the given base address.
edn_config(base) == IF base = config.edn0.base_address THEN config.edn0 ELSE config.edn1

\* A control register value that enables an instance without auto request mode.
EdnCtrlEnable_NoAutoRequest ==
  bitfield_field32_write(W(0), EDN_CTRL_EDN_ENABLE_FIELD, W(kMultiBitBool4True))

\* The control register value that enables an instance in auto request mode.
EdnCtrlEnable ==
  bitfield_field32_write(
    bitfield_field32_write(W(0), EDN_CTRL_EDN_ENABLE_FIELD, W(kMultiBitBool4True)),
    EDN_CTRL_AUTO_REQ_MODE_FIELD, W(kMultiBitBool4True))

edn_configure ==
  \/ /\ pc = "edn_configure_354"
     /\ Call_send(Addr(edn, EDN_RESEED_CMD_REG_OFFSET), edn_config(edn).reseed,
                  <<"edn_configure_356">>)
     /\ UNCHANGED <<api, config, edn, i, buf, status, hw, log, stalls>>
  \/ /\ pc = "edn_configure_356"
     /\ IF status # OK_STATUS
          THEN Return(status) /\ UNCHANGED sendargs
          ELSE /\ Call_send(Addr(edn, EDN_GENERATE_CMD_REG_OFFSET), edn_config(edn).generate,
                            <<"edn_configure_358">>)
               /\ UNCHANGED status
     /\ UNCHANGED <<api, config, edn, i, buf, hw, log, stalls>>
  \/ /\ pc = "edn_configure_358"
     /\ IF status # OK_STATUS
          THEN Return(status) /\ UNCHANGED <<hw, log>>
          ELSE /\ abs_mmio_write32(Addr(edn, EDN_MAX_NUM_REQS_BETWEEN_RESEEDS_REG_OFFSET),
                                   W(edn_config(edn).reseed_interval))
               /\ pc' = "edn_configure_362"
               /\ UNCHANGED <<stack, status>>
     /\ UNCHANGED <<api, config, sendargs, edn, i, buf, stalls>>
  \/ /\ pc = "edn_configure_362"
     /\ abs_mmio_write32(Addr(edn, EDN_CTRL_REG_OFFSET), EdnCtrlEnable)
     /\ pc' = "edn_configure_368"
     /\ UNCHANGED <<stack, api, config, sendargs, edn, i, buf, status, stalls>>
  \/ /\ pc = "edn_configure_368"
     /\ pc' = "edn_ready_337"
     /\ stack' = <<"edn_configure_369">> \o stack
     /\ UNCHANGED <<api, config, sendargs, edn, i, buf, status, hw, log, stalls>>
  \/ /\ pc = "edn_configure_369"
     /\ IF status # OK_STATUS
          THEN Return(status) /\ UNCHANGED sendargs
          ELSE /\ Call_send(Addr(edn, EDN_SW_CMD_REQ_REG_OFFSET), edn_config(edn).instantiate,
                            <<"edn_configure_371">>)
               /\ UNCHANGED status
     /\ UNCHANGED <<api, config, edn, i, buf, hw, log, stalls>>
  \/ /\ pc = "edn_configure_371"
     /\ IF status # OK_STATUS
          THEN Return(status)
          ELSE pc' = "edn_ready_337" /\ UNCHANGED <<stack, status>>
     /\ UNCHANGED <<api, config, sendargs, edn, i, buf, hw, log, stalls>>

(***************************************************************************)
(* entropy_src_stop, entropy_complex_stop_all                              *)
(***************************************************************************)
\* Writes of a stop that resets module-enable last.
EntropySrcStopWrites_EnableLast ==
  << <<"entropy_src_stop_381", ENTROPY_SRC_ENTROPY_CONTROL_REG_OFFSET,
       ENTROPY_SRC_ENTROPY_CONTROL_REG_RESVAL>>,
     <<"entropy_src_stop_386", ENTROPY_SRC_CONF_REG_OFFSET,
       ENTROPY_SRC_CONF_REG_RESVAL>>,
     <<"entropy_src_stop_388", ENTROPY_SRC_HEALTH_TEST_WINDOWS_REG_OFFSET,
       ENTROPY_SRC_HEALTH_TEST_WINDOWS_REG_RESVAL>>,
     <<"entropy_src_stop_390", ENTROPY_SRC_ALERT_THRESHOLD_REG_OFFSET,
       ENTROPY_SRC_ALERT_THRESHOLD_REG_RESVAL>>,
     <<"entropy_src_stop_392", ENTROPY_SRC_MODULE_ENABLE_REG_OFFSET,
       ENTROPY_SRC_MODULE_ENABLE_REG_RESVAL>> >>

\* The writes of entropy_src_stop, in order: label, register, value.
EntropySrcStopWrites ==
  << <<"entropy_src_stop_381", ENTROPY_SRC_MODULE_ENABLE_REG_OFFSET,
       ENTROPY_SRC_MODULE_ENABLE_REG_RESVAL>>,
     <<"entropy_src_stop_386", ENTROPY_SRC_ENTROPY_CONTROL_REG_OFFSET,
       ENTROPY_SRC_ENTROPY_CONTROL_REG_RESVAL>>,
     <<"entropy_src_stop_388", ENTROPY_SRC_CONF_REG_OFFSET,
       ENTROPY_SRC_CONF_REG_RESVAL>>,
     <<"entropy_src_stop_390", ENTROPY_SRC_HEALTH_TEST_WINDOWS_REG_OFFSET,
       ENTROPY_SRC_HEALTH_TEST_WINDOWS_REG_RESVAL>>,
     <<"entropy_src_stop_392", ENTROPY_SRC_ALERT_THRESHOLD_REG_OFFSET,
       ENTROPY_SRC_ALERT_THRESHOLD_REG_RESVAL>> >>

\* A stop that leaves the alert threshold register alone.
entropy_src_stop_FourWrites ==
  \E k \in 1..(Len(EntropySrcStopWrites) - 1) :
    /\ pc = EntropySrcStopWrites[k][1]
    /\ abs_mmio_write32(Addr(kBaseEntropySrc, EntropySrcStopWrites[k][2]),
                        EntropySrcStopWrites[k][3])
    /\ IF k < Len(EntropySrcStopWrites) - 1
         THEN pc' = EntropySrcStopWrites[k + 1][1] /\ UNCHANGED <<stack, status>>
         ELSE ReturnVoid
    /\ UNCHANGED <<api, config, sendargs, edn, i, buf, stalls>>

entropy_src_stop ==
  \E k \in 1..Len(EntropySrcStopWrites) :
    /\ pc = EntropySrcStopWrites[k][1]
    /\ abs_mmio_write32(Addr(kBaseEntropySrc, EntropySrcStopWrites[k][2]),
                        EntropySrcStopWrites[k][3])
    /\ IF k < Len(EntropySrcStopWrites)
         THEN pc' = EntropySrcStopWrites[k + 1][1] /\ UNCHANGED <<stack, status>>
         ELSE ReturnVoid
    /\ UNCHANGED <<api, config, sendargs, edn, i, buf, stalls>>

\* A stop_all that resets the DRBG control register before stopping instance 1.
entropy_complex_stop_all_DrbgEarly ==
  \/ /\ pc = "stop_all_412"
     /\ edn' = kBaseEdn0
     /\ pc' = "edn_stop_317"
     /\ stack' = <<"stop_all_413">> \o stack
     /\ UNCHANGED <<api, config, sendargs, i, buf, status, hw, log, stalls>>
  \/ /\ pc = "stop_all_413"
     /\ abs_mmio_write32(Addr(kBaseCsrng, CSRNG_CTRL_REG_OFFSET), CSRNG_CTRL_REG_RESVAL)
     /\ pc' = "stop_all_414"
     /\ UNCHANGED <<stack, api, config, sendargs, edn, i, buf, status, stalls>>
  \/ /\ pc = "stop_all_414"
     /\ edn' = kBaseEdn1
     /\ pc' = "edn_stop_317"
     /\ stack' = <<"stop_all_415">> \o stack
     /\ UNCHANGED <<api, config, sendargs, i, buf, status, hw, log, stalls>>
  \/ /\ pc = "stop_all_415"
     /\ pc' = "entropy_src_stop_381"
     /\ UNCHANGED <<stack, api, config, sendargs, edn, i, buf, status, hw, log, stalls>>

entropy_complex_stop_all ==
  \/ /\ pc = "stop_all_412"
     /\ edn' = kBaseEdn0
     /\ pc' = "edn_stop_317"
     /\ stack' = <<"stop_all_413">> \o stack
     /\ UNCHANGED <<api, config, sendargs, i, buf, status, hw, log, stalls>>
  \/ /\ pc = "stop_all_413"
     /\ edn' = kBaseEdn1
     /\ pc' = "edn_stop_317"
     /\ stack' = <<"stop_all_414">> \o stack
     /\ UNCHANGED <<api, config, sendargs, i, buf, status, hw, log, stalls>>
  \/ /\ pc = "stop_all_414"
     /\ abs_mmio_write32(Addr(kBaseCsrng, CSRNG_CTRL_REG_OFFSET), CSRNG_CTRL_REG_RESVAL)
     /\ pc' = "stop_all_415"
     /\ UNCHANGED <<stack, api, config, sendargs, edn, i, buf, status, stalls>>
  \/ /\ pc = "stop_all_415"
     /\ pc' = "entropy_src_stop_381"
     /\ UNCHANGED <<stack, api, config, sendargs, edn, i, buf, status, hw, log, stalls>>

(***************************************************************************)
(* entropy_src_configure, csrng_configure, entropy_complex_init            *)
(***************************************************************************)
EntropyControlReg(cfg) ==
  bitfield_field32_write(
    bitfield_field32_write(W(0), ENTROPY_SRC_ENTROPY_CONTROL_ES_ROUTE_FIELD,
                           W(cfg.route_to_firmware)),
    ENTROPY_SRC_ENTROPY_CONTROL_ES_TYPE_FIELD, W(cfg.bypass_conditioner))

\* A conf register whose FIPS-enable field takes the routing flag.
ConfReg_Swapped(cfg) ==
  LET r1 == bitfield_field32_write(W(0), ENTROPY_SRC_CONF_FIPS_ENABLE_FIELD,
                                   W(cfg.route_to_firmware))
      r2 == bitfield_field32_write(r1, ENTROPY_SRC_CONF_ENTROPY_DATA_REG_ENABLE_FIELD,
                                   W(cfg.fips_enable))
      r3 == bitfield_field32_write(r2, ENTROPY_SRC_CONF_THRESHOLD_SCOPE_FIELD,
                                   W(kMultiBitBool4False))
      r4 == bitfield_field32_write(r3, ENTROPY_SRC_CONF_RNG_BIT_ENABLE_FIELD,
                                   W(cfg.single_bit_mode))
  IN bitfield_field32_write(r4, ENTROPY_SRC_CONF_RNG_BIT_SEL_FIELD, W(0))

ConfReg(cfg) ==
  LET r1 == bitfield_field32_write(W(0), ENTROPY_SRC_CONF_FIPS_ENABLE_FIELD,
                                   W(cfg.fips_enable))
      r2 == bitfield_field32_write(r1, ENTROPY_SRC_CONF_ENTROPY_DATA_REG_ENABLE_FIELD,
                                   W(cfg.route_to_firmware))
      r3 == bitfield_field32_write(r2, ENTROPY_SRC_CONF_THRESHOLD_SCOPE_FIELD,
                                   W(kMultiBitBool4False))
      r4 == bitfield_field32_write(r3, ENTROPY_SRC_CONF_RNG_BIT_ENABLE_FIELD,
                                   W(cfg.single_bit_mode))
  IN bitfield_field32_write(r4, ENTROPY_SRC_CONF_RNG_BIT_SEL_FIELD, W(0))

HealthTestWindowsReg(cfg) ==
  bitfield_field32_write(ENTROPY_SRC_HEALTH_TEST_WINDOWS_REG_RESVAL,
                         ENTROPY_SRC_HEALTH_TEST_WINDOWS_FIPS_WINDOW_FIELD,
                         W(cfg.fips_test_window_size))

\* An alert threshold register whose inverse field is the negation -t, not ~t.
AlertThresholdReg_Negated(cfg) ==
  bitfield_field32_write(
    bitfield_field32_write(W(0), ENTROPY_SRC_ALERT_THRESHOLD_ALERT_THRESHOLD_FIELD,
                           W(cfg.alert_threshold)),
    ENTROPY_SRC_ALERT_THRESHOLD_ALERT_THRESHOLD_INV_FIELD,
    Add32(Not32(W(cfg.alert_threshold)), W(1)))

\* ~config->alert_threshold is the complement of the uint16_t promoted to int.
AlertThresholdReg(cfg) ==
  bitfield_field32_write(
    bitfield_field32_write(W(0), ENTROPY_SRC_ALERT_THRESHOLD_ALERT_THRESHOLD_FIELD,
                           W(cfg.alert_threshold)),
    ENTROPY_SRC_ALERT_THRESHOLD_ALERT_THRESHOLD_INV_FIELD,
    Not32(W(cfg.alert_threshold)))

\* The writes of entropy_src_configure, in order: label and register ...
EntropySrcConfigureRegs ==
  << <<"entropy_src_configure_427", ENTROPY_SRC_ENTROPY_CONTROL_REG_OFFSET>>,
     <<"entropy_src_configure_435", ENTROPY_SRC_CONF_REG_OFFSET>>,
     <<"entropy_src_configure_448", ENTROPY_SRC_HEALTH_TEST_WINDOWS_REG_OFFSET>>,
     <<"entropy_src_configure_455", ENTROPY_SRC_ALERT_THRESHOLD_REG_OFFSET>>,
     <<"entropy_src_configure_464", ENTROPY_SRC_MODULE_ENABLE_REG_OFFSET>> >>

\* ... and the value of the k-th write.
EntropySrcConfigureValue(k) ==
  CASE k = 1 -> EntropyControlReg(config)
    [] k = 2 -> ConfReg(config)
    [] k = 3 -> HealthTestWindowsReg(config)
    [] k = 4 -> AlertThresholdReg(config)
    [] k = 5 -> W(kMultiBitBool4True)

entropy_src_configure ==
  \E k \in 1..Len(EntropySrcConfigureRegs) :
    /\ pc = EntropySrcConfigureRegs[k][1]
    /\ abs_mmio_write32(Addr(kBaseEntropySrc, EntropySrcConfigureRegs[k][2]),
                        EntropySrcConfigureValue(k))
    /\ IF k < Len(EntropySrcConfigureRegs)
         THEN pc' = EntropySrcConfigureRegs[k + 1][1] /\ UNCHANGED <<stack, status>>
         ELSE Return(OK_STATUS)
    /\ UNCHANGED <<api, config, sendargs, edn, i, buf, stalls>>

CsrngCtrlEnable ==
  LET r1 == bitfield_field32_write(W(0), CSRNG_CTRL_ENABLE_FIELD, W(kMultiBitBool4True))
      r2 == bitfield_field32_write(r1, CSRNG_CTRL_SW_APP_ENABLE_FIELD, W(kMultiBitBool4True))
  IN bitfield_field32_write(r2, CSRNG_CTRL_READ_INT_STATE_FIELD, W(kMultiBitBool4True))

csrng_configure ==
  /\ pc = "csrng_configure_297"
  /\ abs_mmio_write32(Addr(kBaseCsrng, CSRNG_CTRL_REG_OFFSET), CsrngCtrlEnable)
  /\ ReturnVoid
  /\ UNCHANGED <<api, config, sendargs, edn, i, buf, stalls>>

\* entropy_complex_init(), entered from the caller
Call_entropy_complex_init ==
  /\ Enter(ApiCall("entropy_complex_init", 0, NULL, W(0)))
  /\ pc' = "init_472"
  /\ stack' = <<>>
  /\ sendargs' = NoArgs
  /\ edn' = NoEdn

\* entropy_complex_stop_all(); then the check of the configuration identifier
init_stop_all ==
  /\ pc = "init_472"
  /\ pc' = "stop_all_412"
  /\ stack' = <<"init_474">> \o stack
  /\ UNCHANGED <<api, config, sendargs, edn, i, buf, status, hw, log, stalls>>

\* An init that enables the DRBG before it configures the noise source.
init_check_id_DrbgFirst ==
  /\ pc = "init_474"
  /\ IF config.id # kEntropyComplexConfigIdContinuous
       THEN Return(INTERNAL)
       ELSE /\ pc' = "csrng_configure_297"
            /\ stack' = <<"entropy_src_configure_427", "init_483">> \o stack
            /\ UNCHANGED status
  /\ UNCHANGED <<api, config, sendargs, edn, i, buf, hw, log, stalls>>

init_check_id ==
  /\ pc = "init_474"
  /\ IF config.id # kEntropyComplexConfigIdContinuous
       THEN Return(INTERNAL)
       ELSE /\ pc' = "entropy_src_configure_427"
            /\ stack' = <<"init_483">> \o stack
            /\ UNCHANGED status
  /\ UNCHANGED <<api, config, sendargs, edn, i, buf, hw, log, stalls>>

\* TRY(entropy_src_configure(config)); csrng_configure();
init_csrng_configure ==
  /\ pc = "init_483"
  /\ IF status # OK_STATUS
       THEN Return(status)
       ELSE /\ pc' = "csrng_configure_297"
            /\ stack' = <<"init_484">> \o stack
            /\ UNCHANGED status
  /\ UNCHANGED <<api, config, sendargs, edn, i, buf, hw, log, stalls>>

\* An init that configures instance 1 where instance 0 is due.
init_edn0_Instance1 ==
  /\ pc = "init_484"
  /\ edn' = config.edn1.base_address
  /\ pc' = "edn_configure_354"
  /\ stack' = <<"init_485">> \o stack
  /\ UNCHANGED <<api, config, sendargs, i, buf, status, hw, log, stalls>>

\* TRY(edn_configure(&config->edn0));
init_edn0 ==
  /\ pc = "init_484"
  /\ edn' = config.edn0.base_address
  /\ pc' = "edn_configure_354"
  /\ stack' = <<"init_485">> \o stack
  /\ UNCHANGED <<api, config, sendargs, i, buf, status, hw, log, stalls>>

\* return edn_configure(&config->edn1);
init_edn1 ==
  /\ pc = "init_485"
  /\ IF status # OK_STATUS
       THEN Return(status) /\ UNCHANGED edn
       ELSE /\ edn' = config.edn1.base_address
            /\ pc' = "edn_configure_354"
            /\ UNCHANGED <<stack, status>>
  /\ UNCHANGED <<api, config, sendargs, i, buf, hw, log, stalls>>

entropy_complex_init ==
  \/ init_stop_all
  \/ init_check_id
  \/ init_csrng_configure
  \/ init_edn0
  \/ init_edn1

(***************************************************************************)
(* The csrng calls of the public interface.                                *)
(***************************************************************************)
Call_entropy_csrng_instantiate ==
  /\ pc = "idle"
  /\ \E disable_trng_input \in HardenedBools, seed_material \in SeedMaterials :
    /\ Enter(ApiCall("entropy_csrng_instantiate", disable_trng_input, seed_material, W(0)))
    /\ Call_send(Addr(kBaseCsrng, CSRNG_CMD_REQ_REG_OFFSET),
                 Cmd(kEntropyDrbgOpInstantiate, disable_trng_input, seed_material, 0), <<>>)
    /\ edn' = NoEdn

Call_entropy_csrng_reseed ==
  /\ pc = "idle"
  /\ \E disable_trng_input \in HardenedBools, seed_material \in SeedMaterials :
    /\ Enter(ApiCall("entropy_csrng_reseed", disable_trng_input, seed_material, W(0)))
    /\ Call_send(Addr(kBaseCsrng, CSRNG_CMD_REQ_REG_OFFSET),
                 Cmd(kEntropyDrbgOpReseed, disable_trng_input, seed_material, 0), <<>>)
    /\ edn' = NoEdn

Call_entropy_csrng_update ==
  /\ pc = "idle"
  /\ \E seed_material \in SeedMaterials :
    /\ Enter(ApiCall("entropy_csrng_update", 0, seed_material, W(0)))
    /\ Call_send(Addr(kBaseCsrng, CSRNG_CMD_REQ_REG_OFFSET),
                 Cmd(kEntropyDrbgOpUpdate, 0, seed_material, 0), <<>>)
    /\ edn' = NoEdn

\* const uint32_t num_128bit_blocks = (len + 3) / 4;  with a 32-bit size_t
num_128bit_blocks(len) == Nat32(Shr(Add32(len, W(3)), 2))

GenerateCmd(seed_material, len) ==
  Cmd(kEntropyDrbgOpGenerate, 0, seed_material, num_128bit_blocks(len))

Call_entropy_csrng_generate_start ==
  /\ pc = "idle"
  /\ \E seed_material \in GenerateSeedMaterials, len \in SmallLens \cup LargeLens :
    /\ Enter(ApiCall("entropy_csrng_generate_start", 0, seed_material, len))
    /\ Call_send(Addr(kBaseCsrng, CSRNG_CMD_REQ_REG_OFFSET),
                 GenerateCmd(seed_material, len), <<>>)
    /\ edn' = NoEdn

\* An uninstantiate that submits the Uninstantiate opcode.
Call_entropy_csrng_uninstantiate_Opcode5 ==
  /\ Enter(ApiCall("entropy_csrng_uninstantiate", 0, NULL, W(0)))
  /\ Call_send(Addr(kBaseCsrng, CSRNG_CMD_REQ_REG_OFFSET),
               Cmd(kEntropyDrbgOpUnisntantiate, 0, NULL, 0), <<>>)
  /\ edn' = NoEdn

Call_entropy_csrng_uninstantiate ==
  /\ Enter(ApiCall("entropy_csrng_uninstantiate", 0, NULL, W(0)))
  /\ Call_send(Addr(kBaseCsrng, CSRNG_CMD_REQ_REG_OFFSET),
               Cmd(kEntropyDrbgOpUpdate, 0, NULL, 0), <<>>)
  /\ edn' = NoEdn

\* if (i & (kEntropyCsrngBitsBufferNumWords - 1)) poll the genbits valid bit
PollsBeforeWord(k) == (W(k) \cap W(kEntropyCsrngBitsBufferNumWords - 1)) # {}

Call_entropy_csrng_generate_data_get ==
  /\ pc = "idle"
  /\ \E len \in SmallLens :
    /\ Enter(ApiCall("entropy_csrng_generate_data_get", 0, NULL, len))
    /\ pc' = "data_get_534"
    /\ stack' = <<>>
    /\ sendargs' = NoArgs
    /\ edn' = NoEdn

entropy_csrng_generate_data_get ==
  \/ /\ pc = "data_get_534"
     /\ IF IndexBelow(i, api.len)
          THEN /\ pc' = IF PollsBeforeWord(i) THEN "data_get_542" ELSE "data_get_545"
               /\ UNCHANGED <<stack, status>>
          ELSE Return(OK_STATUS)
     /\ UNCHANGED <<api, config, sendargs, edn, i, buf, hw, log, stalls>>
  \/ /\ pc = "data_get_542"
     /\ LET plain == {{CSRNG_GENBITS_VLD_GENBITS_VLD_BIT}} IN
        \E val \in HwAnswers({{}, {CSRNG_GENBITS_VLD_GENBITS_VLD_BIT}}, plain) :
          /\ abs_mmio_read32(Addr(kBaseCsrng, CSRNG_GENBITS_VLD_REG_OFFSET), val)
          /\ Stalled(val, plain)
          /\ pc' = IF bitfield_bit32_read(val, CSRNG_GENBITS_VLD_GENBITS_VLD_BIT)
                     THEN "data_get_545" ELSE "data_get_542"
     /\ UNCHANGED <<stack, api, config, sendargs, edn, i, buf, status>>
  \/ /\ pc = "data_get_545"
     /\ abs_mmio_read32(Addr(kBaseCsrng, CSRNG_GENBITS_REG_OFFSET), GenbitsWord(GenbitsReads))
     /\ buf' = (i :> GenbitsWord(GenbitsReads)) @@ buf
     /\ i' = i + 1
     /\ pc' = "data_get_534"
     /\ UNCHANGED <<stack, api, config, sendargs, edn, status, stalls>>

Call_entropy_csrng_generate ==
  /\ pc = "idle"
  /\ \E seed_material \in GenerateSeedMaterials, len \in SmallLens :
    /\ Enter(ApiCall("entropy_csrng_generate", 0, seed_material, len))
    /\ Call_send(Addr(kBaseCsrng, CSRNG_CMD_REQ_REG_OFFSET),
                 GenerateCmd(seed_material, len), <<"generate_553">>)
    /\ edn' = NoEdn

\* A generate that drains the output whatever generate_start returned.
entropy_csrng_generate_NoTry ==
  /\ pc = "generate_553"
  /\ i' = 0
  /\ pc' = "data_get_534"
  /\ UNCHANGED <<stack, status, api, config, sendargs, edn, buf, hw, log, stalls>>

\* TRY(entropy_csrng_generate_start(seed_material, len)); return ..._data_get(buf, len);
entropy_csrng_generate ==
  /\ pc = "generate_553"
  /\ IF status # OK_STATUS
       THEN Return(status) /\ UNCHANGED i
       ELSE /\ i' = 0
            /\ pc' = "data_get_534"
            /\ UNCHANGED <<stack, status>>
  /\ UNCHANGED <<api, config, sendargs, edn, buf, hw, log, stalls>>

(***************************************************************************)
(* The driver and its caller.                                              *)
(***************************************************************************)
NoCall == ApiCall("none", 0, NULL, W(0))

\* The caller has the result of the call and goes on; the registers keep
\* what the driver wrote, and the record of the call is dropped.
Continue ==
  /\ pc = "done"
  /\ pc' = "idle"
  /\ api' = NoCall
  /\ sendargs' = NoArgs
  /\ edn' = NoEdn
  /\ i' = 0
  /\ buf' = <<>>
  /\ status' = "none"
  /\ log' = <<>>
  /\ stalls' = 0
  /\ UNCHANGED <<stack, config, hw>>

Init ==
  /\ pc = "idle"
  /\ stack = <<>>
  /\ api = NoCall
  /\ config = kEntropyComplexConfigs
  /\ sendargs = NoArgs
  /\ edn = NoEdn
  /\ i = 0
  /\ buf = <<>>
  /\ status = "none"
  /\ hw = HwReset
  /\ log = <<>>
  /\ stalls = 0

Next ==
  \/ Call_entropy_complex_init
  \/ Call_entropy_csrng_instantiate
  \/ Call_entropy_csrng_reseed
  \/ Call_entropy_csrng_update
  \/ Call_entropy_csrng_generate_start
  \/ Call_entropy_csrng_generate_data_get
  \/ Call_entropy_csrng_generate
  \/ Call_entropy_csrng_uninstantiate
  \/ entropy_complex_init
  \/ entropy_complex_stop_all
  \/ edn_stop
  \/ entropy_src_stop
  \/ entropy_src_configure
  \/ csrng_configure
  \/ edn_configure
  \/ edn_ready_block
  \/ csrng_send_app_cmd
  \/ entropy_csrng_generate
  \/ entropy_csrng_generate_data_get
  \/ Continue

Spec == Init /\ [][Next]_vars

\* The driver keeps executing, and the hardware sets every bit the driver
\* polls after finitely many polls.
SpecLive == Init /\ [][Next]_vars /\ WF_vars(Next)

(***************************************************************************)
(* init() started from the hardware states in which no consumer is enabled *)
(* without its producer.                                                   *)
(***************************************************************************)
DistributionEnabled(h, b) ==
  bitfield_field32_read(h[Addr(b, EDN_CTRL_REG_OFFSET)], EDN_CTRL_EDN_ENABLE_FIELD)
    = W(kMultiBitBool4True)
DrbgEnabled(h) ==
  bitfield_field32_read(h[Addr(kBaseCsrng, CSRNG_CTRL_REG_OFFSET)], CSRNG_CTRL_ENABLE_FIELD)
    = W(kMultiBitBool4True)
NoiseSourceEnabled(h) ==
  h[Addr(kBaseEntropySrc, ENTROPY_SRC_MODULE_ENABLE_REG_OFFSET)] = W(kMultiBitBool4True)

\* A distribution instance is enabled only if the DRBG is, and the DRBG only
\* if the noise source is.
ProducerBeforeConsumer(h) ==
  /\ (DistributionEnabled(h, kBaseEdn0) \/ DistributionEnabled(h, kBaseEdn1)) => DrbgEnabled(h)
  /\ DrbgEnabled(h) => NoiseSourceEnabled(h)

\* Register contents with each block disabled (reset value) or enabled; an
\* enabled instance holds the value of edn_configure or the reset value with
\* only the enable field set.
HwStatesOrdered ==
  LET ednCtrl == {EDN_CTRL_REG_RESVAL, EdnCtrlEnable,
                  bitfield_field32_write(EDN_CTRL_REG_RESVAL, EDN_CTRL_EDN_ENABLE_FIELD,
                                         W(kMultiBitBool4True))}
      all == {[HwReset EXCEPT
                 ![Addr(kBaseEdn0, EDN_CTRL_REG_OFFSET)] = e0,
                 ![Addr(kBaseEdn1, EDN_CTRL_REG_OFFSET)] = e1,
                 ![Addr(kBaseCsrng, CSRNG_CTRL_REG_OFFSET)] = c,
                 ![Addr(kBaseEntropySrc, ENTROPY_SRC_MODULE_ENABLE_REG_OFFSET)] = m] :
                e0 \in ednCtrl, e1 \in ednCtrl,
                c \in {CSRNG_CTRL_REG_RESVAL, CsrngCtrlEnable},
                m \in {ENTROPY_SRC_MODULE_ENABLE_REG_RESVAL, W(kMultiBitBool4True)}}
  IN {h \in all : ProducerBeforeConsumer(h)}

InitOrdered ==
  /\ pc = "idle"
  /\ stack = <<>>
  /\ api = NoCall
  /\ config = kEntropyComplexConfigs
  /\ sendargs = NoArgs
  /\ edn = NoEdn
  /\ i = 0
  /\ buf = <<>>
  /\ status = "none"
  /\ hw \in HwStatesOrdered
  /\ log = <<>>
  /\ stalls = 0

\* init(), any number of times
NextOrdered ==
  \/ Call_entropy_complex_init
  \/ entropy_complex_init
  \/ entropy_complex_stop_all
  \/ edn_stop
  \/ entropy_src_stop
  \/ entropy_src_configure
  \/ csrng_configure
  \/ edn_configure
  \/ edn_ready_block
  \/ csrng_send_app_cmd
  \/ Continue

SpecOrdered == InitOrdered /\ [][NextOrdered]_vars

(***************************************************************************)
(* Observations of the log, used by the properties below.                  *)
(***************************************************************************)
IsWrite(e) == e.op = "write"
IsRead(e) == e.op = "read"
Writes(l) == SelectSeq(l, IsWrite)
WritesTo(l, addr) == SelectSeq(l, LAMBDA e : IsWrite(e) /\ e.addr = addr)
Block(e) == e.addr[1]
Range(f) == {f[x] : x \in DOMAIN f}

SwCmdSts == Addr(kBaseCsrng, CSRNG_SW_CMD_STS_REG_OFFSET)
IntrState == Addr(kBaseCsrng, CSRNG_INTR_STATE_REG_OFFSET)
CmdReq == Addr(kBaseCsrng, CSRNG_CMD_REQ_REG_OFFSET)
Genbits == Addr(kBaseCsrng, CSRNG_GENBITS_REG_OFFSET)
GenbitsVld == Addr(kBaseCsrng, CSRNG_GENBITS_VLD_REG_OFFSET)

\* The calls that consist of one submit to the csrng command port.
SubmitCalls == {"entropy_csrng_instantiate", "entropy_csrng_reseed", "entropy_csrng_update",
                "entropy_csrng_generate_start", "entropy_csrng_uninstantiate"}

(***************************************************************************)
(* C1                                                                      *)
(***************************************************************************)
\* stop_all is running, or has just returned to init
InStopAll == "init_474" \in Range(stack)
AfterStopAll == pc = "init_474"

BlockRank(b) == CASE b = kBaseEdn0 -> 1 [] b = kBaseEdn1 -> 2
                  [] b = kBaseCsrng -> 3 [] b = kBaseEntropySrc -> 4

\* C1: the writes of stop_all() go, block by block, to distribution instance 0
\* (two writes to its control register, the second restoring the reset value),
\* then to instance 1 (the same), then once to the DRBG control register (its
\* reset value), then to the noise source; no write to a later block precedes
\* a write to an earlier one, and when stop_all returns every block was written.
C1_StopAllOrder ==
  (InStopAll \/ AfterStopAll) =>
    LET w == Writes(log)
        to(b) == SelectSeq(w, LAMBDA e : Block(e) = b)
        ednOk(b) ==
          /\ Len(to(b)) <= 2
          /\ \A k \in 1..Len(to(b)) : to(b)[k].addr = Addr(b, EDN_CTRL_REG_OFFSET)
          /\ Len(to(b)) = 2 => to(b)[2].val = EDN_CTRL_REG_RESVAL
    IN /\ \A j, k \in 1..Len(w) : j < k => BlockRank(Block(w[j])) <= BlockRank(Block(w[k]))
       /\ ednOk(kBaseEdn0)
       /\ ednOk(kBaseEdn1)
       /\ Len(to(kBaseCsrng)) <= 1
       /\ \A k \in 1..Len(to(kBaseCsrng)) :
            to(kBaseCsrng)[k] = Write(Addr(kBaseCsrng, CSRNG_CTRL_REG_OFFSET),
                                      CSRNG_CTRL_REG_RESVAL)
       /\ Len(to(kBaseEntropySrc)) >= 1 => Len(to(kBaseCsrng)) = 1
       /\ Len(to(kBaseCsrng)) = 1 => Len(to(kBaseEdn1)) = 2
       /\ Len(to(kBaseEdn1)) >= 1 => Len(to(kBaseEdn0)) = 2
       /\ AfterStopAll => Len(to(kBaseEntropySrc)) >= 1

\* stop_all has returned to init, from registers that a previous init had set up
C1_Witness ==
  /\ AfterStopAll
  /\ Len(Writes(log)) >= 6
  /\ \E k \in 1..Len(log) :
       /\ IsRead(log[k])
       /\ log[k].addr = Addr(kBaseEdn1, EDN_CTRL_REG_OFFSET)
       /\ log[k].val # EDN_CTRL_REG_RESVAL

(***************************************************************************)
(* C3                                                                      *)
(***************************************************************************)
SeedInvalid(seed_material) ==
  ~seed_material.null /\ (seed_material.len > 15 \/ seed_material.misalign # 0)

\* C3: a submit whose seed material has more than 15 words, or whose data is
\* not 4-byte aligned, fails without a single register write; the same call
\* with 15 aligned words is accepted: the clear, the header and the 15 words
\* are written.
C3_RejectBeforeWrite ==
  /\ (api.fn \in SubmitCalls \cup {"entropy_csrng_generate"} /\ SeedInvalid(api.seed_material)) =>
       /\ Writes(log) = <<>>
       /\ pc = "done" => status = INTERNAL
  /\ (api.fn \in SubmitCalls /\ api.seed_material = SeedMaterial(15, 0) /\ pc = "done") =>
       /\ Len(Writes(log)) = 17
       /\ Len(WritesTo(log, CmdReq)) = 16

\* instantiate with 16 words of seed material has returned
C3_Witness ==
  /\ pc = "done"
  /\ api.fn = "entropy_csrng_instantiate"
  /\ api.seed_material = SeedMaterial(16, 0)
  /\ status = INTERNAL
  /\ Len(log) >= 1

(***************************************************************************)
(* C2                                                                      *)
(***************************************************************************)
\* The positions in the log of the reads of the output register.
GenbitsPositions == {p \in 1..Len(log) : IsRead(log[p]) /\ log[p].addr = Genbits}
\* The index of the output word read at position p.
WordIndex(p) == Cardinality({q \in GenbitsPositions : q < p})
PolledBefore(p) == p > 1 /\ IsRead(log[p - 1]) /\ log[p - 1].addr = GenbitsVld

\* C2: draining output words, the "output valid" bit is polled immediately
\* before the read of each word whose index is a non-zero multiple of 4, and
\* before no other word.
C2_PollAtChunkBoundaries ==
  \A p \in GenbitsPositions :
    PolledBefore(p) <=> (WordIndex(p) # 0 /\ WordIndex(p) % 4 = 0)

(***************************************************************************)
(* C4                                                                      *)
(***************************************************************************)
\* the header of the active submit has just been written
HeaderJustWritten == pc = "send_272" /\ i = 0

\* C4: the header word of an accepted command has the opcode in bits[3:0],
\* the seed-material length in bits[7:4], the requested generate length in
\* bits[30:12], the encoded true in bits[11:8] exactly when disable-noise-input
\* was requested, and no other bit set.
C4_HeaderFields ==
  HeaderJustWritten =>
    LET h == log[Len(log)].val
        cmd == sendargs.cmd
    IN /\ Nat32(bitfield_field32_read(h, Field(15, 0))) = cmd.id
       /\ Nat32(bitfield_field32_read(h, Field(15, 4))) = cmd.seed_material.len
       /\ Nat32(bitfield_field32_read(h, Field(524287, 12))) = cmd.generate_len
       /\ bitfield_field32_read(h, Field(15, 8)) =
            (IF cmd.disable_trng_input = kHardenedBoolTrue THEN W(kMultiBitBool4True) ELSE {})
       /\ 31 \notin h

(***************************************************************************)
(* C5                                                                      *)
(***************************************************************************)
CmdRegisters ==
  {CmdReq} \cup {Addr(b, o) : b \in {kBaseEdn0, kBaseEdn1},
                              o \in {EDN_SW_CMD_REQ_REG_OFFSET, EDN_RESEED_CMD_REG_OFFSET,
                                     EDN_GENERATE_CMD_REG_OFFSET}}

\* A reader of the log that follows the submit sequence: outside a submit
\* ("between") it lets every access pass that does not belong to the
\* sequence; a read of the command status opens a submit, after which exactly
\* the accesses of the sequence may follow, in order.
Phase(ph, addr, left, k) == [ph |-> ph, addr |-> addr, left |-> left, k |-> k]
Between == Phase("between", CmdReq, 0, 0)
Bad == Phase("bad", CmdReq, 0, 0)

SubmitStep(st, e) ==
  LET ready == IF CSRNG_SW_CMD_STS_CMD_RDY_BIT \in e.val
                 THEN Phase("clear", CmdReq, 0, 0) ELSE Phase("ready", CmdReq, 0, 0)
  IN CASE st.ph = "bad" -> Bad
       [] st.ph = "between" ->
            IF IsRead(e) /\ e.addr = SwCmdSts THEN ready
            ELSE IF e.addr = IntrState \/ e.addr \in CmdRegisters THEN Bad
            ELSE st
       [] st.ph = "ready" ->
            IF IsRead(e) /\ e.addr = SwCmdSts THEN ready ELSE Bad
       [] st.ph = "clear" ->
            IF e = Write(IntrState, {CSRNG_INTR_STATE_CS_CMD_REQ_DONE_BIT})
              THEN Phase("header", CmdReq, 0, 0) ELSE Bad
       [] st.ph = "header" ->
            IF IsWrite(e) /\ e.addr \in CmdRegisters
              THEN LET L == Nat32(bitfield_field32_read(e.val, Field(15, 4)))
                   IN Phase(IF L = 0 THEN "done" ELSE "seed", e.addr, L, 0)
              ELSE Bad
       [] st.ph = "seed" ->
            IF e = Write(st.addr, SeedWord(st.k))
              THEN Phase(IF st.k + 1 = st.left THEN "done" ELSE "seed", st.addr, st.left, st.k + 1)
              ELSE Bad
       [] st.ph = "done" ->
            IF IsRead(e) /\ e.addr = IntrState
              THEN IF CSRNG_INTR_STATE_CS_CMD_REQ_DONE_BIT \in e.val
                     THEN Phase("status", st.addr, 0, 0) ELSE st
              ELSE Bad
       [] st.ph = "status" ->
            IF IsRead(e) /\ e.addr = SwCmdSts THEN Between ELSE Bad

RECURSIVE SubmitPhase(_)
SubmitPhase(n) == IF n = 0 THEN Between ELSE SubmitStep(SubmitPhase(n - 1), log[n])

\* C5: an accepted submit polls command-ready until set, writes the clear of
\* the done flag, writes the header to the command register, writes the L
\* seed words in index order to the same register, polls the done flag until
\* set and reads the status once; it succeeds iff the status bit of that read
\* is clear, and nothing else touches the done flag or a command register.
C5_SubmitSequence ==
  /\ SubmitPhase(Len(log)).ph # "bad"
  /\ (pc = "done" /\ api.fn \in SubmitCalls /\ ~SeedInvalid(api.seed_material)) =>
       /\ SubmitPhase(Len(log)).ph = "between"
       /\ WritesTo(log, IntrState) = <<Write(IntrState, {CSRNG_INTR_STATE_CS_CMD_REQ_DONE_BIT})>>
       /\ Len(WritesTo(log, CmdReq)) = 1 + api.seed_material.len
       /\ Len(Writes(log)) = 2 + api.seed_material.len
       /\ log[Len(log)].addr = SwCmdSts
       /\ status = OK_STATUS <=> CSRNG_SW_CMD_STS_CMD_STS_BIT \notin log[Len(log)].val

\* reseed with 15 seed words has succeeded after the hardware made it wait
C5_Witness ==
  /\ pc = "done"
  /\ api.fn = "entropy_csrng_reseed"
  /\ api.seed_material = SeedMaterial(15, 0)
  /\ status = OK_STATUS
  /\ stalls >= 1
  /\ Len(Writes(log)) = 17

(***************************************************************************)
(* C6                                                                      *)
(***************************************************************************)
\* The positions of the status reads (the read that follows the done flag
\* being seen set) that found the status bit set.
FailedStatusReads ==
  {p \in 2..Len(log) :
     /\ IsRead(log[p]) /\ log[p].addr = SwCmdSts
     /\ CSRNG_SW_CMD_STS_CMD_STS_BIT \in log[p].val
     /\ IsRead(log[p - 1]) /\ log[p - 1].addr = IntrState
     /\ CSRNG_INTR_STATE_CS_CMD_REQ_DONE_BIT \in log[p - 1].val}

\* C6: once the status read after a submitted command has found the status
\* bit set, the call makes no further register write and reads no output
\* word, and it returns failure.
C6_FailFast ==
  \A p \in FailedStatusReads :
    /\ \A q \in (p + 1)..Len(log) : ~IsWrite(log[q]) /\ log[q].addr # Genbits
    /\ pc = "done" => status = INTERNAL

\* generate of some words has returned after the hardware rejected its command
C6_Witness ==
  /\ pc = "done"
  /\ api.fn = "entropy_csrng_generate"
  /\ api.len # W(0)
  /\ FailedStatusReads # {}
  /\ status = INTERNAL

(***************************************************************************)
(* C7                                                                      *)
(***************************************************************************)
EdnConfigureWriteAddrs(b) ==
  <<IntrState, Addr(b, EDN_RESEED_CMD_REG_OFFSET),
    IntrState, Addr(b, EDN_GENERATE_CMD_REG_OFFSET),
    Addr(b, EDN_MAX_NUM_REQS_BETWEEN_RESEEDS_REG_OFFSET),
    Addr(b, EDN_CTRL_REG_OFFSET),
    IntrState, Addr(b, EDN_SW_CMD_REQ_REG_OFFSET)>>

\* The registers a complete init() writes, step by step.
InitWriteAddrs ==
  \* stop_all
  <<Addr(kBaseEdn0, EDN_CTRL_REG_OFFSET), Addr(kBaseEdn0, EDN_CTRL_REG_OFFSET),
    Addr(kBaseEdn1, EDN_CTRL_REG_OFFSET), Addr(kBaseEdn1, EDN_CTRL_REG_OFFSET),
    Addr(kBaseCsrng, CSRNG_CTRL_REG_OFFSET),
    Addr(kBaseEntropySrc, ENTROPY_SRC_MODULE_ENABLE_REG_OFFSET),
    Addr(kBaseEntropySrc, ENTROPY_SRC_ENTROPY_CONTROL_REG_OFFSET),
    Addr(kBaseEntropySrc, ENTROPY_SRC_CONF_REG_OFFSET),
    Addr(kBaseEntropySrc, ENTROPY_SRC_HEALTH_TEST_WINDOWS_REG_OFFSET),
    Addr(kBaseEntropySrc, ENTROPY_SRC_ALERT_THRESHOLD_REG_OFFSET)>>
  \* noise-source configure
  \o <<Addr(kBaseEntropySrc, ENTROPY_SRC_ENTROPY_CONTROL_REG_OFFSET),
       Addr(kBaseEntropySrc, ENTROPY_SRC_CONF_REG_OFFSET),
       Addr(kBaseEntropySrc, ENTROPY_SRC_HEALTH_TEST_WINDOWS_REG_OFFSET),
       Addr(kBaseEntropySrc, ENTROPY_SRC_ALERT_THRESHOLD_REG_OFFSET),
       Addr(kBaseEntropySrc, ENTROPY_SRC_MODULE_ENABLE_REG_OFFSET)>>
  \* DRBG enable
  \o <<Addr(kBaseCsrng, CSRNG_CTRL_REG_OFFSET)>>
  \* distribution instances 0 and 1
  \o EdnConfigureWriteAddrs(kBaseEdn0)
  \o EdnConfigureWriteAddrs(kBaseEdn1)

\* A read that makes the step in progress fail: a status read after a submit,
\* or a ready handshake of a distribution instance, with the status bit set.
IsFailingRead(p) ==
  \/ p \in FailedStatusReads
  \/ /\ IsRead(log[p])
     /\ log[p].addr[2] = EDN_SW_CMD_STS_REG_OFFSET
     /\ EDN_SW_CMD_STS_CMD_RDY_BIT \in log[p].val
     /\ EDN_SW_CMD_STS_CMD_STS_BIT \in log[p].val

\* C7: init() writes in the order stop_all, noise-source configure, DRBG
\* enable (one control write), distribution instance 0, distribution instance
\* 1; it returns success only after all of them with no step failed, and a
\* failure is returned right at the failing step, with no later write.
C7_InitOrder ==
  api.fn = "entropy_complex_init" =>
    LET w == Writes(log) IN
    /\ Len(w) <= Len(InitWriteAddrs)
    /\ \A k \in 1..Len(w) : w[k].addr = InitWriteAddrs[k]
    /\ (pc = "done" /\ status = OK_STATUS) =>
         /\ Len(w) = Len(InitWriteAddrs)
         /\ \A p \in 1..Len(log) : ~IsFailingRead(p)
    /\ (pc = "done" /\ status # OK_STATUS) =>
         /\ status = INTERNAL
         /\ IsFailingRead(Len(log))
    /\ \A p \in 1..Len(log) : IsFailingRead(p) => p = Len(log)

\* init() has returned success after all its writes
C7_Witness ==
  /\ api.fn = "entropy_complex_init"
  /\ pc = "done"
  /\ status = OK_STATUS
  /\ Len(Writes(log)) = Len(InitWriteAddrs)

(***************************************************************************)
(* C8                                                                      *)
(***************************************************************************)
LastWritten(addr) == LET ws == WritesTo(log, addr) IN ws[Len(ws)].val

\* C8: after a successful init() the values written last are: noise source
\* FIPS-enable encoded true, route-to-firmware encoded false, FIPS window
\* 0x200, alert threshold 2 with its inverse 0xfffd; DRBG enable encoded true;
\* instance 0 reseed interval 32 and generate length 8; instance 1 reseed
\* interval 4 and generate length 1.
C8_InitValues ==
  (api.fn = "entropy_complex_init" /\ pc = "done" /\ status = OK_STATUS) =>
    /\ bitfield_field32_read(LastWritten(Addr(kBaseEntropySrc, ENTROPY_SRC_CONF_REG_OFFSET)),
                             ENTROPY_SRC_CONF_FIPS_ENABLE_FIELD) = W(kMultiBitBool4True)
    /\ bitfield_field32_read(
         LastWritten(Addr(kBaseEntropySrc, ENTROPY_SRC_ENTROPY_CONTROL_REG_OFFSET)),
         ENTROPY_SRC_ENTROPY_CONTROL_ES_ROUTE_FIELD) = W(kMultiBitBool4False)
    /\ bitfield_field32_read(
         LastWritten(Addr(kBaseEntropySrc, ENTROPY_SRC_HEALTH_TEST_WINDOWS_REG_OFFSET)),
         ENTROPY_SRC_HEALTH_TEST_WINDOWS_FIPS_WINDOW_FIELD) = W(512)
    /\ LastWritten(Addr(kBaseEntropySrc, ENTROPY_SRC_ALERT_THRESHOLD_REG_OFFSET))
         = Halves(65533, 2)
    /\ bitfield_field32_read(LastWritten(Addr(kBaseCsrng, CSRNG_CTRL_REG_OFFSET)),
                             CSRNG_CTRL_ENABLE_FIELD) = W(kMultiBitBool4True)
    /\ LastWritten(Addr(kBaseEdn0, EDN_MAX_NUM_REQS_BETWEEN_RESEEDS_REG_OFFSET)) = W(32)
    /\ bitfield_field32_read(LastWritten(Addr(kBaseEdn0, EDN_GENERATE_CMD_REG_OFFSET)),
                             Field(524287, 12)) = W(8)
    /\ LastWritten(Addr(kBaseEdn1, EDN_MAX_NUM_REQS_BETWEEN_RESEEDS_REG_OFFSET)) = W(4)
    /\ bitfield_field32_read(LastWritten(Addr(kBaseEdn1, EDN_GENERATE_CMD_REG_OFFSET)),
                             Field(524287, 12)) = W(1)

\* init() has returned success and both instances are left enabled
C8_Witness ==
  /\ api.fn = "entropy_complex_init"
  /\ pc = "done"
  /\ status = OK_STATUS
  /\ hw[Addr(kBaseEdn0, EDN_CTRL_REG_OFFSET)] # EDN_CTRL_REG_RESVAL
  /\ hw[Addr(kBaseEdn1, EDN_CTRL_REG_OFFSET)] # EDN_CTRL_REG_RESVAL

(***************************************************************************)
(* C9: noise-source configure over the range of the alert threshold.       *)
(***************************************************************************)
\* Alert thresholds: both ends of the 16-bit range, 256 values at each, and
\* every bit set alone and cleared alone.
AlertThresholds ==
  (0..255) \cup {65535 - t : t \in 0..255}
  \cup {Pow2(k) : k \in 0..15} \cup {65535 - Pow2(k) : k \in 0..15}

InitAlert ==
  /\ pc = "idle"
  /\ stack = <<>>
  /\ api = NoCall
  /\ config \in {[kEntropyComplexConfigs EXCEPT !.alert_threshold = t] : t \in AlertThresholds}
  /\ sendargs = NoArgs
  /\ edn = NoEdn
  /\ i = 0
  /\ buf = <<>>
  /\ status = "none"
  /\ hw = HwReset
  /\ log = <<>>
  /\ stalls = 0

\* init() up to the return of entropy_src_configure
NextAlert ==
  \/ Call_entropy_complex_init
  \/ init_stop_all
  \/ init_check_id
  \/ entropy_complex_stop_all
  \/ edn_stop
  \/ entropy_src_stop
  \/ entropy_src_configure

SpecAlert == InitAlert /\ [][NextAlert]_vars

AlertThresholdWrites == WritesTo(log, Addr(kBaseEntropySrc, ENTROPY_SRC_ALERT_THRESHOLD_REG_OFFSET))

\* C9: the alert-threshold register value that noise-source configure writes
\* for threshold t has t in its low 16 bits and 0xFFFF - t, the complement of
\* t on 16 bits, in its high 16 bits, and so nothing else.
C9_AlertThresholdInverse ==
  Len(AlertThresholdWrites) >= 2 =>
    LET v == AlertThresholdWrites[2].val IN
    /\ Lo16(v) = config.alert_threshold
    /\ Hi16(v) = 65535 - config.alert_threshold
    /\ v \subseteq Bits32

\* noise-source configure has written the register for threshold 0
C9_Witness ==
  /\ Len(AlertThresholdWrites) = 2
  /\ config.alert_threshold = 0
  /\ pc = "init_483"

(***************************************************************************)
(* C10                                                                     *)
(***************************************************************************)
\* ceil(len / 4) of a 32-bit len, computed on its 16-bit halves
CeilDiv4(len) == Hi16(len) * 16384 + ((Lo16(len) + 3) \div 4)

\* C10: the header that generate_start(seed_material, word_count) submits has
\* ceil(word_count / 4) in its generate-length field, for every 32-bit
\* word_count.
C10_GenerateLength ==
  (api.fn = "entropy_csrng_generate_start" /\ HeaderJustWritten) =>
    Nat32(bitfield_field32_read(log[Len(log)].val, Field(524287, 12))) = CeilDiv4(api.len)

(***************************************************************************)
(* C11                                                                     *)
(***************************************************************************)
\* The block whose command register the active submit addresses.
SubmitTarget == sendargs.reg_address[1]

\* The labels at which the access made last is the ready poll that found the
\* bit set, the clear of the completion flag, and the completion poll that
\* found the flag set.
AfterHandshakeAccess == pc \in {"send_240", "send_262", "send_284"}

\* A submit of edn_configure has returned: the access made last is its status read.
AfterEdnSubmit ==
  /\ pc \in {"edn_configure_356", "edn_configure_358", "edn_configure_371"}
  /\ Len(log) >= 1
  /\ IsRead(log[Len(log)])

\* C11: the ready bit polled, the completion flag cleared and polled, and the
\* status bit read by a submit are registers of the block the command is
\* addressed to: of the distribution instance for the templates that
\* distribution configure sends, of the DRBG for the DRBG's own port.
C11_EndpointHandshake ==
  /\ AfterHandshakeAccess => Block(log[Len(log)]) = SubmitTarget
  /\ AfterEdnSubmit => Block(log[Len(log)]) = SubmitTarget

(***************************************************************************)
(* C12                                                                     *)
(***************************************************************************)
\* The writes to the noise source made so far by the call in progress.
NoiseSourceWrites == SelectSeq(log, LAMBDA e : IsWrite(e) /\ Block(e) = kBaseEntropySrc)

IsPrefix(s, t) == Len(s) <= Len(t) /\ \A k \in 1..Len(s) : s[k] = t[k]

StopFourRegisters ==
  <<Write(Addr(kBaseEntropySrc, ENTROPY_SRC_MODULE_ENABLE_REG_OFFSET), W(9)),
    Write(Addr(kBaseEntropySrc, ENTROPY_SRC_ENTROPY_CONTROL_REG_OFFSET), W(153)),
    Write(Addr(kBaseEntropySrc, ENTROPY_SRC_CONF_REG_OFFSET), W(9474201)),
    Write(Addr(kBaseEntropySrc, ENTROPY_SRC_HEALTH_TEST_WINDOWS_REG_OFFSET), W(6291968))>>

StopFiveRegisters ==
  Append(StopFourRegisters,
         Write(Addr(kBaseEntropySrc, ENTROPY_SRC_ALERT_THRESHOLD_REG_OFFSET), Halves(65533, 2)))

\* C12 as stated: the noise-source stop() writes the power-on-reset values of
\* exactly four registers, module-enable first, then entropy-control, conf and
\* health-test-window, and no other register.
C12_StopFourRegisters ==
  /\ InStopAll => IsPrefix(NoiseSourceWrites, StopFourRegisters)
  /\ AfterStopAll => NoiseSourceWrites = StopFourRegisters

\* C12 amended: the noise-source stop() writes the power-on-reset values of
\* exactly five registers, in this order: module-enable, entropy-control,
\* conf, health-test-window and alert-threshold; it writes no other register.
C12_StopFiveRegisters ==
  /\ InStopAll => IsPrefix(NoiseSourceWrites, StopFiveRegisters)
  /\ AfterStopAll => NoiseSourceWrites = StopFiveRegisters

\* the noise-source stop() has just returned, its last write being the one
\* to the alert threshold register
C12_Witness ==
  /\ AfterStopAll
  /\ Len(NoiseSourceWrites) = 5
  /\ log[Len(log)].addr = Addr(kBaseEntropySrc, ENTROPY_SRC_ALERT_THRESHOLD_REG_OFFSET)

(***************************************************************************)
(* C13                                                                     *)
(***************************************************************************)
\* The reads of the output register made so far by the call in progress.
OutputReads == SelectSeq(log, LAMBDA e : IsRead(e) /\ e.addr = Genbits)

\* buffer[k] holds the value of the k-th read of the output register, for
\* every read made so far, and nothing else.
BufferHoldsReads ==
  /\ DOMAIN buf = 0..(Len(OutputReads) - 1)
  /\ \A k \in 0..(Len(OutputReads) - 1) : buf[k] = OutputReads[k + 1].val

\* C13: generate_data_get(buffer, N) reads the output register exactly N
\* times, stores the k-th value read at buffer[k], writes no register and
\* returns success; with N = 0 it accesses no register at all.  The same
\* holds for the draining part of a generate() whose command was accepted.
C13_DrainExactly ==
  /\ api.fn = "entropy_csrng_generate_data_get" =>
       /\ Writes(log) = <<>>
       /\ BufferHoldsReads
       /\ Len(OutputReads) <= Nat32(api.len)
       /\ pc = "done" =>
            /\ status = OK_STATUS
            /\ Len(OutputReads) = Nat32(api.len)
            /\ api.len = W(0) => log = <<>>
  /\ api.fn = "entropy_csrng_generate" =>
       /\ BufferHoldsReads
       /\ Len(OutputReads) <= Nat32(api.len)
       /\ (pc = "done" /\ status = OK_STATUS) => Len(OutputReads) = Nat32(api.len)

\* generate_data_get of five words has returned after a poll that had to wait
C13_Witness ==
  /\ api.fn = "entropy_csrng_generate_data_get"
  /\ api.len = W(5)
  /\ pc = "done"
  /\ stalls >= 1
  /\ Len(OutputReads) = 5

(***************************************************************************)
(* C14                                                                     *)
(***************************************************************************)
\* The labels of the polling loops, with the register and the bit each polls.
PollLabels == {"send_226", "send_280", "edn_ready_337", "data_get_542"}

PolledRegister ==
  CASE pc = "send_226" -> SwCmdSts
    [] pc = "send_280" -> IntrState
    [] pc = "edn_ready_337" -> Addr(edn, EDN_SW_CMD_STS_REG_OFFSET)
    [] pc = "data_get_542" -> GenbitsVld

PolledBit ==
  CASE pc = "send_226" -> CSRNG_SW_CMD_STS_CMD_RDY_BIT
    [] pc = "send_280" -> CSRNG_INTR_STATE_CS_CMD_REQ_DONE_BIT
    [] pc = "edn_ready_337" -> EDN_SW_CMD_STS_CMD_RDY_BIT
    [] pc = "data_get_542" -> CSRNG_GENBITS_VLD_GENBITS_VLD_BIT

Running == pc \notin {"idle", "done"}

\* Every driver call returns, the hardware setting each polled bit in the end.
EveryCallReturns == Running ~> (pc = "done")

\* A step of a polling loop is one read of the polled register; it leaves the
\* loop exactly when the value read has the polled bit set, and a read that
\* finds the bit clear neither returns nor sets a result.
PollStep ==
  pc \in PollLabels =>
    /\ Len(log') = Len(log) + 1
    /\ log' = Append(log, Read(PolledRegister, log'[Len(log')].val))
    /\ (PolledBit \in log'[Len(log')].val) => pc' # pc
    /\ (PolledBit \notin log'[Len(log')].val) =>
         (pc' = pc /\ stack' = stack /\ status' = status)

NoWayOutOfPoll == [][PollStep]_vars

\* C14: the polling loops have no bound.  If the hardware sets each polled
\* bit in the end, every driver call returns; a loop whose bit stays clear
\* is never left: there is no timeout and no failure result, and the loop
\* only reads the polled register, it writes nothing.
C14_UnboundedPolling == EveryCallReturns /\ NoWayOutOfPoll

\* init() has returned success after a poll that had to wait
C14_Witness ==
  /\ api.fn = "entropy_complex_init"
  /\ pc = "done"
  /\ status = OK_STATUS
  /\ stalls >= 1

(***************************************************************************)
(* C15                                                                     *)
(***************************************************************************)
\* The field of the value holds the encoded true (0x6) or the encoded false (0x9).
EncodedBool(val, field) == bitfield_field32_read(val, field) \in {W(6), W(9)}

\* Every value written to the register so far has the fields encoded.
AllEncoded(addr, fields) ==
  \A k \in 1..Len(log) :
    (IsWrite(log[k]) /\ log[k].addr = addr) =>
      \A f \in fields : EncodedBool(log[k].val, f)

HeaderFlagEncoded ==
  HeaderJustWritten => EncodedBool(log[Len(log)].val, Field(15, 8))

DrbgControlEncoded ==
  AllEncoded(Addr(kBaseCsrng, CSRNG_CTRL_REG_OFFSET),
             {Field(15, 0), Field(15, 4), Field(15, 8)})

\* the control register value that distribution configure has just written
DistributionControlEncoded ==
  pc = "edn_configure_368" =>
    \A f \in {Field(15, 0), Field(15, 4), Field(15, 8), Field(15, 12)} :
      EncodedBool(log[Len(log)].val, f)

NoiseSourceEncoded ==
  /\ AllEncoded(Addr(kBaseEntropySrc, ENTROPY_SRC_ENTROPY_CONTROL_REG_OFFSET),
                {Field(15, 0), Field(15, 4)})
  /\ AllEncoded(Addr(kBaseEntropySrc, ENTROPY_SRC_CONF_REG_OFFSET),
                {Field(15, 0), Field(15, 4), Field(15, 12), Field(15, 20)})
  /\ AllEncoded(Addr(kBaseEntropySrc, ENTROPY_SRC_MODULE_ENABLE_REG_OFFSET),
                {Field(15, 0)})

\* C15: in every register write, each boolean field the driver builds holds
\* the encoded true or the encoded false: flag0 of a command header, whether
\* disable-noise-input is requested or not; the fields of the DRBG control
\* register; the four fields of the control register that distribution
\* configure writes; the routing, bypass, FIPS-enable, data-enable,
\* threshold-scope, single-bit-mode and module-enable fields of the noise source.
C15_EncodedBooleans ==
  /\ HeaderFlagEncoded
  /\ DrbgControlEncoded
  /\ DistributionControlEncoded
  /\ NoiseSourceEncoded

(***************************************************************************)
(* C16                                                                     *)
(***************************************************************************)
\* The positions in the log of the reads of a distribution control register;
\* the driver reads that register only at the start of a distribution stop().
ControlReads ==
  {p \in 1..Len(log) : IsRead(log[p]) /\ log[p].addr[2] = EDN_CTRL_REG_OFFSET}

\* The value with bits 15:12, the command-FIFO-clear field, replaced by 0x6.
WithClearRequested(val) == (val \ {12, 13, 14, 15}) \cup {13, 14}

\* C16: distribution stop() makes two writes, both to the control register of
\* its instance and with no other access between them: first the value just
\* read with only the command-FIFO-clear field replaced by the encoded true,
\* so that an enabled instance is still enabled; then the power-on-reset
\* value 0x9999, which has the enable and the clear fields at the encoded
\* false.  The access that follows is not to that register.
C16_DistributionStop ==
  /\ \A p \in ControlReads :
       LET a == log[p].addr
           v == log[p].val
       IN /\ v = hw[a] \/ Len(log) > p
          /\ Len(log) >= p + 1 =>
               /\ log[p + 1] = Write(a, WithClearRequested(v))
               /\ bitfield_field32_read(log[p + 1].val, Field(15, 0))
                    = bitfield_field32_read(v, Field(15, 0))
          /\ Len(log) >= p + 2 =>
               /\ log[p + 2] = Write(a, W(39321))
               /\ bitfield_field32_read(log[p + 2].val, Field(15, 0)) = W(9)
               /\ bitfield_field32_read(log[p + 2].val, Field(15, 12)) = W(9)
          /\ Len(log) >= p + 3 => log[p + 3].addr # a
  /\ AfterStopAll =>
       \A b \in {kBaseEdn0, kBaseEdn1} :
         Len(SelectSeq(log, LAMBDA e : IsWrite(e) /\ Block(e) = b)) = 2

\* stop() of instance 0 has returned, having found the instance enabled
C16_Witness ==
  /\ pc = "stop_all_413"
  /\ Len(log) = 3
  /\ bitfield_field32_read(log[1].val, Field(15, 0)) = W(6)
  /\ hw[Addr(kBaseEdn0, EDN_CTRL_REG_OFFSET)] = W(39321)

(***************************************************************************)
(* C17                                                                     *)
(***************************************************************************)
\* The accesses of init() to the registers of instance b after the three of
\* its stop(), without the reads of the ready handshake that found the
\* instance not ready.
DistributionEvents(b) ==
  LET acc == SelectSeq(log, LAMBDA e :
               /\ Block(e) = b
               /\ ~(/\ IsRead(e)
                    /\ e.addr[2] = EDN_SW_CMD_STS_REG_OFFSET
                    /\ EDN_SW_CMD_STS_CMD_RDY_BIT \notin e.val))
  IN SubSeq(acc, 4, Len(acc))

\* The registers distribution configure accesses, in order.
ConfigureSteps ==
  <<[op |-> "write", reg |-> EDN_RESEED_CMD_REG_OFFSET],
    [op |-> "write", reg |-> EDN_GENERATE_CMD_REG_OFFSET],
    [op |-> "write", reg |-> EDN_MAX_NUM_REQS_BETWEEN_RESEEDS_REG_OFFSET],
    [op |-> "write", reg |-> EDN_CTRL_REG_OFFSET],
    [op |-> "read", reg |-> EDN_SW_CMD_STS_REG_OFFSET],
    [op |-> "write", reg |-> EDN_SW_CMD_REQ_REG_OFFSET],
    [op |-> "read", reg |-> EDN_SW_CMD_STS_REG_OFFSET]>>

Opcode(header) == Nat32(bitfield_field32_read(header, Field(15, 0)))

ConfigureInOrder(b) ==
  LET ev == DistributionEvents(b) IN
  /\ Len(ev) <= Len(ConfigureSteps)
  /\ \A k \in 1..Len(ev) :
       ev[k].op = ConfigureSteps[k].op /\ ev[k].addr = Addr(b, ConfigureSteps[k].reg)
  /\ Len(ev) >= 1 => Opcode(ev[1].val) = 2
  /\ Len(ev) >= 2 => Opcode(ev[2].val) = 3
  /\ Len(ev) >= 4 =>
       /\ bitfield_field32_read(ev[4].val, Field(15, 0)) = W(6)
       /\ bitfield_field32_read(ev[4].val, Field(15, 8)) = W(6)
  /\ Len(ev) >= 6 =>
       /\ Opcode(ev[6].val) = 1
       /\ EDN_SW_CMD_STS_CMD_STS_BIT \notin ev[5].val

\* a ready handshake has just returned its result
HandshakeReturned ==
  /\ pc \in {"edn_configure_369", "init_485", "done"}
  /\ Len(log) >= 1
  /\ log[Len(log)].addr[2] = EDN_SW_CMD_STS_REG_OFFSET

\* C17: distribution configure submits the reseed template to the
\* reseed-command register, then the generate template to the
\* generate-command register, writes the reseed interval, writes the control
\* register with enable and auto-request at the encoded true, waits for the
\* ready handshake, submits the instantiate template to the software-command
\* register and waits for the handshake again.  A handshake fails iff the
\* value in which it saw the ready bit has the status bit set, and a failed
\* submit or handshake is the last access of the call, so that nothing of
\* the following sub-steps happens.
C17_DistributionConfigure ==
  api.fn = "entropy_complex_init" =>
    /\ ConfigureInOrder(kBaseEdn0)
    /\ ConfigureInOrder(kBaseEdn1)
    /\ HandshakeReturned =>
         /\ EDN_SW_CMD_STS_CMD_RDY_BIT \in log[Len(log)].val
         /\ status = OK_STATUS <=> EDN_SW_CMD_STS_CMD_STS_BIT \notin log[Len(log)].val
    /\ \A p \in 1..Len(log) : IsFailingRead(p) => p = Len(log)
    /\ (pc = "done" /\ status = OK_STATUS) =>
         /\ Len(DistributionEvents(kBaseEdn0)) = 7
         /\ Len(DistributionEvents(kBaseEdn1)) = 7

\* configure of instance 0 has returned failure from its second handshake
C17_Witness ==
  /\ api.fn = "entropy_complex_init"
  /\ pc = "init_485"
  /\ status = INTERNAL
  /\ Len(DistributionEvents(kBaseEdn0)) = 7

(***************************************************************************)
(* C18                                                                     *)
(***************************************************************************)
\* The command headers written so far by the call in progress: the writes
\* to the DRBG's command register that directly follow the clear of the
\* completion flag.
HeadersSubmitted ==
  {log[p].val : p \in {q \in 2..Len(log) :
                         /\ IsWrite(log[q]) /\ log[q].addr = CmdReq
                         /\ IsWrite(log[q - 1]) /\ log[q - 1].addr = IntrState}}

\* C18: uninstantiate() submits to the DRBG's command register a header
\* with the Update opcode 4, not the Uninstantiate opcode 5, with
\* seed-material length 0, generate length 0 and flag0 clear: the word
\* 0x00000004, which is also the header of update(NULL).
C18_UninstantiateIsUpdate ==
  /\ api.fn = "entropy_csrng_uninstantiate" =>
       /\ HeadersSubmitted \subseteq {{2}}
       /\ \A k \in 1..Len(log) : IsWrite(log[k]) => log[k].addr \in {IntrState, CmdReq}
       /\ pc = "done" => HeadersSubmitted = {{2}} /\ Len(WritesTo(log, CmdReq)) = 1
  /\ (api.fn = "entropy_csrng_update" /\ api.seed_material = NULL) =>
       /\ HeadersSubmitted \subseteq {{2}}
       /\ pc = "done" => HeadersSubmitted = {{2}}

\* uninstantiate() has returned success
C18_Witness ==
  /\ api.fn = "entropy_csrng_uninstantiate"
  /\ pc = "done"
  /\ status = OK_STATUS
  /\ HeadersSubmitted # {}

(***************************************************************************)
(* C19                                                                     *)
(***************************************************************************)
ModuleEnable == Addr(kBaseEntropySrc, ENTROPY_SRC_MODULE_ENABLE_REG_OFFSET)

\* The noise-source registers init() writes: those of stop, then those of configure.
NoiseSourceOrder ==
  <<ENTROPY_SRC_MODULE_ENABLE_REG_OFFSET,
    ENTROPY_SRC_ENTROPY_CONTROL_REG_OFFSET, ENTROPY_SRC_CONF_REG_OFFSET,
    ENTROPY_SRC_HEALTH_TEST_WINDOWS_REG_OFFSET, ENTROPY_SRC_ALERT_THRESHOLD_REG_OFFSET,
    ENTROPY_SRC_ENTROPY_CONTROL_REG_OFFSET, ENTROPY_SRC_CONF_REG_OFFSET,
    ENTROPY_SRC_HEALTH_TEST_WINDOWS_REG_OFFSET, ENTROPY_SRC_ALERT_THRESHOLD_REG_OFFSET,
    ENTROPY_SRC_MODULE_ENABLE_REG_OFFSET>>

\* the access made last is a write to a noise-source register other than module-enable
ConfigurationJustWritten ==
  /\ Len(log) >= 1
  /\ IsWrite(log[Len(log)])
  /\ Block(log[Len(log)]) = kBaseEntropySrc
  /\ log[Len(log)].addr # ModuleEnable

\* C19: noise-source configure writes entropy-control, conf,
\* health-test-window, alert-threshold and last module-enable; it reads no
\* register and always succeeds.  In init() every write to a noise-source
\* configuration register, by stop or by configure, is made while
\* module-enable holds its reset value 0x9 (disabled): after the reset write
\* of stop and before the enabling write of configure.
C19_ConfigureWhileDisabled ==
  api.fn = "entropy_complex_init" =>
    /\ Len(NoiseSourceWrites) <= Len(NoiseSourceOrder)
    /\ \A k \in 1..Len(NoiseSourceWrites) :
         NoiseSourceWrites[k].addr = Addr(kBaseEntropySrc, NoiseSourceOrder[k])
    /\ \A k \in 1..Len(log) : IsRead(log[k]) => Block(log[k]) # kBaseEntropySrc
    /\ pc = "init_483" => (status = OK_STATUS /\ Len(NoiseSourceWrites) = 10)
    /\ Len(NoiseSourceWrites) >= 10 => NoiseSourceWrites[10].val = W(6)
    /\ ConfigurationJustWritten => hw[ModuleEnable] = W(9)
    /\ \A k \in 2..Len(NoiseSourceWrites) :
         NoiseSourceWrites[k].addr # ModuleEnable =>
           \E j \in 1..(k - 1) :
             /\ NoiseSourceWrites[j] = Write(ModuleEnable, W(9))
             /\ \A m \in (j + 1)..(k - 1) : NoiseSourceWrites[m].addr # ModuleEnable

\* noise-source configure has returned in an init() that found the complex
\* enabled by an earlier init()
C19_Witness ==
  /\ api.fn = "entropy_complex_init"
  /\ pc = "init_483"
  /\ hw[ModuleEnable] = W(6)
  /\ log[1].val # W(39321)

(***************************************************************************)
(* C20                                                                     *)
(***************************************************************************)
\* C20: init() started from registers in which a distribution instance is
\* enabled only if the DRBG is, and the DRBG only if the noise source is,
\* keeps both implications after each of its register writes, on the success
\* path and on every failure path.
C20_ProducerBeforeConsumer == ProducerBeforeConsumer(hw)

\* stop() of instance 0 has returned in an init() that found everything
\* enabled: instance 1 and the DRBG are still enabled
C20_Witness ==
  /\ pc = "stop_all_413"
  /\ ~DistributionEnabled(hw, kBaseEdn0)
  /\ DistributionEnabled(hw, kBaseEdn1)
  /\ DrbgEnabled(hw)
  /\ NoiseSourceEnabled(hw)

(***************************************************************************)
(* C21                                                                     *)
(***************************************************************************)
\* The submit in progress has seed material that the checks reject.
InvalidSubmit == CmdLenOverflows(sendargs.cmd) \/ SeedMisaligned(sendargs.cmd)

ReadyBitIn(val) == bitfield_bit32_read(val, CSRNG_SW_CMD_STS_CMD_RDY_BIT)

\* The call of an invalid submit, as far as it has come: it has only read the
\* command status register, every read but the last found ready clear, and
\* it has left the ready loop, and holds the failure, only after a read that
\* found ready set.
InvalidFailsAfterReady ==
  InvalidSubmit =>
    /\ pc \in {"send_226", "send_240", "generate_553", "done"}
    /\ \A k \in 1..Len(log) : IsRead(log[k]) /\ log[k].addr = SwCmdSts
    /\ \A k \in 1..(Len(log) - 1) : ~ReadyBitIn(log[k].val)
    /\ (pc # "send_226") => (log # <<>> /\ ReadyBitIn(log[Len(log)].val))
    /\ (status = INTERNAL) <=> (pc \in {"generate_553", "done"})
    /\ (pc = "send_226") => (status = "none" /\ (log # <<>> => ~ReadyBitIn(log[Len(log)].val)))

\* A step of an invalid submit that reads ready clear stays in the ready
\* loop: it does not return and sets no result.
InvalidWaitsForReady ==
  (InvalidSubmit /\ pc = "send_226" /\ Len(log') = Len(log) + 1
     /\ ~ReadyBitIn(log'[Len(log')].val)) =>
    (pc' = "send_226" /\ stack' = stack /\ status' = status /\ hw' = hw)

\* C21: the seed material is checked only after the ready handshake.  A
\* submit with invalid seed material (more than 15 words, or misaligned)
\* returns its failure only after a read that found command-ready set; as
\* long as ready reads clear the call stays in the loop and does not fail;
\* once ready is seen the failure is returned with no access to the
\* completion flag: the call has made no write and has read nothing but the
\* command status register.
C21_ValidateAfterReady == []InvalidFailsAfterReady /\ [][InvalidWaitsForReady]_vars

\* reseed with misaligned seed material has failed, after one read that
\* found ready clear and one that found it set
C21_Witness ==
  /\ api.fn = "entropy_csrng_reseed"
  /\ SeedMisaligned(sendargs.cmd)
  /\ pc = "done"
  /\ status = INTERNAL
  /\ Len(log) = 2
  /\ ~ReadyBitIn(log[1].val)

(***************************************************************************)
(* C22                                                                     *)
(***************************************************************************)
DrbgCalls == SubmitCalls \cup {"entropy_csrng_generate"}

\* The registers a csrng call has written so far.
RegistersWritten == {log[k].addr : k \in {j \in 1..Len(log) : IsWrite(log[j])}}

DrbgCallWritesTwoRegisters ==
  (api.fn \in DrbgCalls) => (RegistersWritten \subseteq {IntrState, CmdReq})

\* A step that enters, executes or leaves one of the csrng calls keeps the
\* contents of every configuration register.
DrbgCallKeepsConfiguration ==
  (api.fn \in DrbgCalls \/ api'.fn \in DrbgCalls) => (hw' = hw)

\* C22: instantiate, reseed, update, generate_start, generate and
\* uninstantiate write two registers only, the csrng interrupt-state register
\* (to clear the completion flag) and the csrng command-request register; no
\* step of these calls changes the csrng control register, a register of a
\* distribution instance or a register of the noise source, which keep what
\* the last init() or stop wrote.
C22_DrbgCallsFrame == []DrbgCallWritesTwoRegisters /\ [][DrbgCallKeepsConfiguration]_vars

\* generate has returned success after an init(): it has written both
\* registers, and the configuration registers are not at their reset values
C22_Witness ==
  /\ api.fn = "entropy_csrng_generate"
  /\ pc = "done"
  /\ status = OK_STATUS
  /\ RegistersWritten = {IntrState, CmdReq}
  /\ hw[Addr(kBaseCsrng, CSRNG_CTRL_REG_OFFSET)] = CsrngCtrlEnable
  /\ hw[Addr(kBaseEdn0, EDN_CTRL_REG_OFFSET)] # EDN_CTRL_REG_RESVAL
  /\ hw[Addr(kBaseEntropySrc, ENTROPY_SRC_MODULE_ENABLE_REG_OFFSET)] # ENTROPY_SRC_MODULE_ENABLE_REG_RESVAL

====
